---- MODULE Spec2Model ----
(***************************************************************************)
(* Reward-claim and coin-ledger subsystem of the AdVentureMaze backend.    *)
(*                                                                         *)
(* The database layer of src/src/db.ts (Postgres, node-pg) is modelled     *)
(* statement by statement: every `await pool.query(...)` is one atomic     *)
(* step of the request that issues it, because pool.query runs each        *)
(* statement in its own autocommit transaction and the request yields at   *)
(* every await.  Requests are the processes of Procs.                      *)
(***************************************************************************)
EXTENDS Integers, Sequences, FiniteSets, Bags, TLC

VARIABLES
  users,          \* table users: uid -> row (DOMAIN = the uids that have a row)
  reward_claims,  \* table reward_claims: a bag of rows (the table has no key)
  level_rewards,  \* table level_rewards: a bag of rows (the table has no key)
  user_ads,       \* table user_ads: <<uid, month>> -> row (PRIMARY KEY (uid, month))
  monthly_payouts,    \* table monthly_payouts: <<uid, month>> -> row (PRIMARY KEY (uid, month))
  user_monthly_state, \* table user_monthly_state of the coin_events variant: <<uid, month>> -> row
  coin_events,        \* table coin_events of the coin_events variant: a bag of rows
  today,          \* the database clock, in days (CURRENT_DATE / NOW())
  pc,             \* per request: the statement it is about to issue
  loc,            \* per request: its parameters and local variables
  ret,            \* per request: what the last finished call returned or threw
  pre,            \* per request: the tables as its call found them, if it runs alone
  nops            \* number of calls begun so far

dbvars == <<users, reward_claims, level_rewards, user_ads>>
\* The tables that only the month close and the coin_events variant write.
morevars == <<monthly_payouts, user_monthly_state, coin_events>>
vars == <<users, reward_claims, level_rewards, user_ads, monthly_payouts,
          user_monthly_state, coin_events, today, pc, loc, ret, pre, nops>>

-----------------------------------------------------------------------------
(* Bounds of the model *)

MaxOps == 4           \* calls begun in one behaviour
MaxDay == 1           \* last day the clock reaches (days are 0..MaxDay)
DaysPerMonth == 1     \* calendar abstraction: a month has this many days

Procs == {1, 2}
Uids == {"u1", "u2"}
Nonces == {"n1", "n2"}
Levels == {1, 2}

-----------------------------------------------------------------------------
(* Program constants *)

FREE_RESTARTS_PER_ACCOUNT == 3
FREE_SKIPS_PER_ACCOUNT == 3
FREE_HINTS_PER_ACCOUNT == 3
RESTART_COST_COINS == 50
SKIP_COST_COINS == 50
HINT_COST_COINS == 50
AD_50_AMOUNT == 50
DAILY_LOGIN_AMOUNT == 5
LEVEL_COMPLETE_AMOUNT == 1
BASE_RATE == 50

NULL == "NULL"

\* The result of a query that returned no row (rows[0] === undefined).
NoRow == [missing |-> TRUE]

Max(a, b) == IF a >= b THEN a ELSE b
Min(a, b) == IF a <= b THEN a ELSE b

\* currentMonthKey(): the UTC month of the clock.
currentMonthKey == today \div DaysPerMonth

\* monthly_rate_breakdown DEFAULT '{}'::jsonb
EmptyBreakdown == [empty |-> TRUE]

\* The row INSERT INTO users (uid, username, updated_at) creates: every other
\* column takes its DEFAULT.
NewUser(username) ==
  [ username |-> username,
    coins |-> 0,
    free_restarts_used |-> 0,
    free_skips_used |-> 0,
    free_hints_used |-> 0,
    monthly_key |-> <<>>,            \* NULL; a month mk is kept as <<mk>>
    monthly_coins_earned |-> 0,
    monthly_login_days |-> 0,
    monthly_levels_completed |-> 0,
    monthly_skips_used |-> 0,
    monthly_hints_used |-> 0,
    monthly_restarts_used |-> 0,
    monthly_ads_watched |-> 0,
    monthly_valid_invites |-> 0,
    monthly_max_win_streak |-> 0,
    monthly_rate_breakdown |-> EmptyBreakdown,
    monthly_final_rate |-> BASE_RATE,
    lifetime_coins_earned |-> 0,
    lifetime_coins_spent |-> 0,
    lifetime_levels_completed |-> 0,
    lifetime_invites_valid |-> 0 ]

\* The username the identity platform reports for a uid.
PiUsername(uid) == IF uid = "u1" THEN "alice" ELSE "bob"

-----------------------------------------------------------------------------
(* SQL statements as functions of the tables *)

\* SELECT * FROM users WHERE uid=$1  ->  rows[0] || null
getUserByUid(us, uid) == IF uid \in DOMAIN us THEN us[uid] ELSE NoRow

\* An UPDATE users ... WHERE uid=$1: rewrites the row if there is one.
UpdateUser(us, uid, f(_)) ==
  IF uid \in DOMAIN us THEN [us EXCEPT ![uid] = f(us[uid])] ELSE us

\* An upsert that writes the row of a new account over the row it finds.
upsertUserRow_replace(us, uid, username) ==
  [u \in DOMAIN us \cup {uid} |-> IF u = uid THEN NewUser(username) ELSE us[u]]

\* INSERT INTO users ... ON CONFLICT (uid) DO UPDATE SET username = EXCLUDED.username
upsertUserRow(us, uid, username) ==
  IF uid \in DOMAIN us
    THEN [us EXCEPT ![uid].username = username]
    ELSE [u \in DOMAIN us \cup {uid} |->
            IF u = uid THEN NewUser(username) ELSE us[u]]

\* UPDATE users SET coins = coins + $2, monthly_coins_earned = ... + GREATEST($2,0),
\*   lifetime_coins_earned = ... + GREATEST($2,0) WHERE uid=$1
addCoinsRow(u, d) ==
  [u EXCEPT !.coins = @ + d,
            !.monthly_coins_earned = @ + Max(d, 0),
            !.lifetime_coins_earned = @ + Max(d, 0)]

addCoins(us, uid, d) ==
  IF uid \in DOMAIN us THEN [us EXCEPT ![uid] = addCoinsRow(us[uid], d)] ELSE us

\* A row of reward_claims.
ClaimRow(uid, type, nonce, amount, day) ==
  [uid |-> uid, type |-> type, nonce |-> nonce, amount |-> amount, created_at |-> day]

\* INSERT INTO a table without a key: always adds a row.
InsertRow(table, row) == table (+) SetToBag({row})

\* Number of rows of a table that satisfy a condition.
RowCount(table, cond(_)) ==
  LET rows == {r \in BagToSet(table) : cond(r)}
      RECURSIVE Sum(_)
      Sum(S) == IF S = {} THEN 0
                ELSE LET r == CHOOSE x \in S : TRUE
                     IN CopiesIn(r, table) + Sum(S \ {r})
  IN Sum(rows)

\* The same query with its two parameters bound in the wrong order.
claimRewardExisting_swapped(rc, uid, nonce) ==
  RowCount(rc, LAMBDA r : r.uid = nonce /\ r.nonce = uid)

\* SELECT 1 FROM reward_claims WHERE uid=$1 AND nonce=$2  ->  rowCount
claimRewardExisting(rc, uid, nonce) ==
  RowCount(rc, LAMBDA r : r.uid = uid /\ r.nonce = nonce)


\* The points of each band of calcMonthlyRate, from the monthly counters.
ratePoints(u) ==
  LET days == u.monthly_login_days
      lv == u.monthly_levels_completed
      inv == u.monthly_valid_invites
      skips == u.monthly_skips_used
      hints == u.monthly_hints_used
      restarts == u.monthly_restarts_used
      ads == u.monthly_ads_watched
      streak == u.monthly_max_win_streak
  IN [daily |-> IF days >= 20 THEN 10 ELSE IF days >= 15 THEN 7
                ELSE IF days >= 7 THEN 3 ELSE 0,
      levels |-> IF lv >= 120 THEN 15 ELSE IF lv >= 60 THEN 10
                 ELSE IF lv >= 20 THEN 5 ELSE 0,
      invites |-> IF inv >= 10 THEN 10 ELSE IF inv >= 6 THEN 6
                  ELSE IF inv >= 3 THEN 3 ELSE 0,
      skill |-> Min(5, (IF skips >= 3 THEN 2 ELSE 0) + (IF hints >= 3 THEN 2 ELSE 0)
                       + (IF restarts >= 1 THEN 1 ELSE 0)),
      engagement |-> IF ads >= 15 THEN 5 ELSE IF ads >= 5 THEN 2 ELSE 0,
      streak |-> IF streak >= 7 THEN 3 ELSE IF streak >= 3 THEN 2 ELSE 0]

\* calcMonthlyRate with the streak points left out of the rate.
calcMonthlyRate_streakNotAdded(u) ==
  LET b == ratePoints(u)
      sum == BASE_RATE + b.daily + b.levels + b.invites + b.skill + b.engagement
  IN [rate |-> IF sum > 100 THEN 100 ELSE sum, breakdown |-> b]

\* calcMonthlyRate with the engagement points taken away above 15 ads.
calcMonthlyRate_adsCapped(u) ==
  LET b == [ratePoints(u) EXCEPT
              !.engagement = IF u.monthly_ads_watched >= 15 THEN 0 ELSE @]
      sum == BASE_RATE + b.daily + b.levels + b.invites + b.skill + b.engagement
             + b.streak
  IN [rate |-> IF sum > 100 THEN 100 ELSE sum, breakdown |-> b]

\* calcMonthlyRate(u): the payout rate and its breakdown, from the monthly counters.
calcMonthlyRate(u) ==
  LET days == u.monthly_login_days
      lv == u.monthly_levels_completed
      inv == u.monthly_valid_invites
      skips == u.monthly_skips_used
      hints == u.monthly_hints_used
      restarts == u.monthly_restarts_used
      ads == u.monthly_ads_watched
      streak == u.monthly_max_win_streak
      daily == IF days >= 20 THEN 10 ELSE IF days >= 15 THEN 7
               ELSE IF days >= 7 THEN 3 ELSE 0
      levels == IF lv >= 120 THEN 15 ELSE IF lv >= 60 THEN 10
                ELSE IF lv >= 20 THEN 5 ELSE 0
      invites == IF inv >= 10 THEN 10 ELSE IF inv >= 6 THEN 6
                 ELSE IF inv >= 3 THEN 3 ELSE 0
      skill == Min(5, (IF skips >= 3 THEN 2 ELSE 0) + (IF hints >= 3 THEN 2 ELSE 0)
                      + (IF restarts >= 1 THEN 1 ELSE 0))
      engagement == IF ads >= 15 THEN 5 ELSE IF ads >= 5 THEN 2 ELSE 0
      strk == IF streak >= 7 THEN 3 ELSE IF streak >= 3 THEN 2 ELSE 0
      sum == BASE_RATE + daily + levels + invites + skill + engagement + strk
  IN [ rate |-> IF sum > 100 THEN 100 ELSE sum,
       breakdown |-> [daily |-> daily, levels |-> levels, invites |-> invites,
                      skill |-> skill, engagement |-> engagement, streak |-> strk] ]

-----------------------------------------------------------------------------
(* Requests *)

Loc0 ==
  [ op |-> "none", uid |-> NULL, type |-> NULL, nonce |-> NULL, amount |-> 0,
    level |-> 0, mode |-> NULL, month |-> 0, user |-> NoRow, out |-> NoRow,
    res |-> NoRow, username |-> NULL, token |-> NULL ]

\* The parameters of a call, as kept with its result.
CallOf(l) ==
  [op |-> l.op, uid |-> l.uid, type |-> l.type, nonce |-> l.nonce,
   amount |-> l.amount, level |-> l.level, mode |-> l.mode, month |-> l.month,
   username |-> l.username]

Ret0 == [status |-> "none"]

\* A call that returned a value.
Returned(v) == [status |-> "ok", value |-> v]
\* A call that threw.
Threw(msg) == [status |-> "error", error |-> msg]

Snapshot ==
  [users |-> users, reward_claims |-> reward_claims,
   level_rewards |-> level_rewards, user_ads |-> user_ads,
   monthly_payouts |-> monthly_payouts, user_monthly_state |-> user_monthly_state,
   coin_events |-> coin_events, today |-> today]

\* The tables are as they were in snapshot s.
SameTables(s) ==
  /\ users = s.users
  /\ reward_claims = s.reward_claims
  /\ level_rewards = s.level_rewards
  /\ user_ads = s.user_ads
  /\ monthly_payouts = s.monthly_payouts
  /\ user_monthly_state = s.user_monthly_state
  /\ coin_events = s.coin_events

Idle(p) == pc[p] \in {"idle", "done"}
Quiescent == \A p \in Procs : Idle(p)

\* Requests are anonymous: an arriving request takes the first free slot.
FirstFree(p) == Idle(p) /\ \A q \in Procs : Idle(q) => q >= p

\* What a new call of request p leaves of the per-request records f: the record
\* v for p itself, the initial record v0 for the requests that have returned
\* (their results have been delivered), and the others as they are.
Begun(f, p, v, v0) ==
  [q \in Procs |-> IF q = p THEN v ELSE IF Idle(q) THEN v0 ELSE f[q]]

\* The tables as a call of request p finds them, kept for as long as the call
\* runs alone: it is dropped when the call begins or goes on beside another one.
Alone(p) == [q \in Procs |-> IF q = p /\ Quiescent THEN Snapshot ELSE NoRow]

\* A request begins a call with locals l and moves to statement next, if fewer
\* than budget calls have begun.
CallWithin(p, l, next, budget) ==
  /\ FirstFree(p)
  /\ nops < budget
  /\ nops' = nops + 1
  /\ loc' = [loc EXCEPT ![p] = l]
  /\ pre' = Alone(p)
  /\ pc' = Begun(pc, p, next, "idle")
  /\ ret' = Begun(ret, p, Ret0, Ret0)

Call(p, l, next) == CallWithin(p, l, next, MaxOps)

\* A request begins a call whose first statement already decides its result r.
CallReturn(p, l, r) ==
  /\ FirstFree(p)
  /\ nops < MaxOps
  /\ nops' = nops + 1
  /\ loc' = [loc EXCEPT ![p] = Loc0]
  /\ pre' = Alone(p)
  /\ pc' = Begun(pc, p, "done", "idle")
  /\ ret' = Begun(ret, p, r @@ [call |-> CallOf(l)], Ret0)

\* The request goes on to its next statement, its locals becoming l.
Goto(p, l, next) ==
  /\ pc' = [pc EXCEPT ![p] = next]
  /\ loc' = [loc EXCEPT ![p] = l]
  /\ UNCHANGED <<ret, pre, nops>>

\* The call ends with result r; its locals are gone.
Finish(p, r) ==
  /\ pc' = [pc EXCEPT ![p] = "done"]
  /\ ret' = [ret EXCEPT ![p] = r @@ [call |-> CallOf(loc[p])]]
  /\ loc' = [loc EXCEPT ![p] = Loc0]
  /\ UNCHANGED <<pre, nops>>

-----------------------------------------------------------------------------
(* upsertUser: one statement *)

upsertUser(p, uid, username) ==
  /\ users' = upsertUserRow(users, uid, username)
  /\ CallReturn(p, [Loc0 EXCEPT !.op = "upsertUser", !.uid = uid],
                Returned([user |-> getUserByUid(users', uid)]))
  /\ UNCHANGED <<reward_claims, level_rewards, user_ads, today, morevars>>

-----------------------------------------------------------------------------
(* recalcAndStoreMonthlyRate, the tail of most reward and consume calls *)

\* SELECT * FROM users WHERE uid=$1; throws "User not found" without a row.
recalc_select(p) ==
  /\ pc[p] = "recalc_select"
  /\ LET u == getUserByUid(users, loc[p].uid)
     IN IF u = NoRow
          THEN Finish(p, Threw("User not found"))
          ELSE Goto(p, [loc[p] EXCEPT !.out = calcMonthlyRate(u)], "recalc_update")
  /\ UNCHANGED <<dbvars, today, morevars>>

\* recalcAndStoreMonthlyRate(uid), called by itself
recalcAndStoreMonthlyRate(p, uid) ==
  /\ Call(p, [Loc0 EXCEPT !.op = "recalcAndStoreMonthlyRate", !.uid = uid],
          "recalc_select")
  /\ UNCHANGED <<dbvars, today, morevars>>

\* return { user: updated[0], breakdown: out.breakdown, rate: out.rate }; as the
\* tail of another call its value is dropped and that call returns its own.
recalc_return(l, updated) ==
  IF l.op = "recalcAndStoreMonthlyRate"
    THEN [user |-> updated, breakdown |-> l.out.breakdown, rate |-> l.out.rate]
    ELSE l.res

storeMonthlyRate(u, out) ==
  [u EXCEPT !.monthly_rate_breakdown = out.breakdown, !.monthly_final_rate = out.rate]

\* UPDATE users SET monthly_rate_breakdown=$2, monthly_final_rate=$3 WHERE uid=$1;
\* the caller then returns the result it had prepared.
recalc_update(p) ==
  /\ pc[p] = "recalc_update"
  /\ users' = UpdateUser(users, loc[p].uid, LAMBDA u : storeMonthlyRate(u, loc[p].out))
  /\ Finish(p, Returned(recalc_return(loc[p], getUserByUid(users', loc[p].uid))))
  /\ UNCHANGED <<reward_claims, level_rewards, user_ads, today, morevars>>

-----------------------------------------------------------------------------
(* claimReward *)

\* The reward types whose claim also counts as a watched ad.
IsAdType(type) == type \in {"ad_50", "ad"}

\* SELECT 1 FROM reward_claims WHERE uid=$1 AND nonce=$2; if (rowCount) return {already:true}
claimReward_select(p, uid, type, nonce, amount) ==
  /\ LET l == [Loc0 EXCEPT !.op = "claimReward", !.uid = uid, !.type = type,
                           !.nonce = nonce, !.amount = amount]
     IN IF claimRewardExisting(reward_claims, uid, nonce) > 0
          THEN CallReturn(p, l, Returned([already |-> TRUE]))
          ELSE Call(p, l, "claimReward_insert")
  /\ UNCHANGED <<dbvars, today, morevars>>

\* INSERT INTO reward_claims (uid,type,nonce,amount,created_at) VALUES (...,NOW())
claimReward_insert(p) ==
  /\ pc[p] = "claimReward_insert"
  /\ reward_claims' = InsertRow(reward_claims,
        ClaimRow(loc[p].uid, loc[p].type, loc[p].nonce, loc[p].amount, today))
  /\ Goto(p, loc[p], "claimReward_addCoins")
  /\ UNCHANGED <<users, level_rewards, user_ads, today, morevars>>

\* const user = await addCoins(uid, amount); the ad types go on, the others return {user}
claimReward_addCoins(p) ==
  /\ pc[p] = "claimReward_addCoins"
  /\ users' = addCoins(users, loc[p].uid, loc[p].amount)
  /\ LET user == getUserByUid(users', loc[p].uid)
     IN IF IsAdType(loc[p].type)
          THEN Goto(p, [loc[p] EXCEPT !.user = user, !.res = [user |-> user]],
                    "claimReward_ads")
          ELSE Finish(p, Returned([user |-> user]))
  /\ UNCHANGED <<reward_claims, level_rewards, user_ads, today, morevars>>

incAdsWatched(u) == [u EXCEPT !.monthly_ads_watched = @ + 1]

\* UPDATE users SET monthly_ads_watched = monthly_ads_watched + 1 WHERE uid=$1
claimReward_ads(p) ==
  /\ pc[p] = "claimReward_ads"
  /\ users' = UpdateUser(users, loc[p].uid, incAdsWatched)
  /\ Goto(p, loc[p], "recalc_select")
  /\ UNCHANGED <<reward_claims, level_rewards, user_ads, today, morevars>>

-----------------------------------------------------------------------------
(* claimDailyLogin *)

\* The same query without its date condition.
claimDailyLoginExisting_anyDay(rc, uid, day) ==
  RowCount(rc, LAMBDA r : r.uid = uid /\ r.type = "daily_login")

\* SELECT 1 FROM reward_claims WHERE uid=$1 AND type='daily_login'
\*   AND created_at::date = CURRENT_DATE  ->  rowCount
claimDailyLoginExisting(rc, uid, day) ==
  RowCount(rc, LAMBDA r : r.uid = uid /\ r.type = "daily_login" /\ r.created_at = day)

\* the SELECT; if (rowCount) return { already: true }
claimDailyLogin_select(p, uid) ==
  /\ LET l == [Loc0 EXCEPT !.op = "claimDailyLogin", !.uid = uid]
     IN IF claimDailyLoginExisting(reward_claims, uid, today) > 0
          THEN CallReturn(p, l, Returned([already |-> TRUE]))
          ELSE Call(p, l, "claimDailyLogin_insert")
  /\ UNCHANGED <<dbvars, today, morevars>>

\* INSERT INTO reward_claims (uid,type,amount,created_at) VALUES ($1,'daily_login',5,NOW())
claimDailyLogin_insert(p) ==
  /\ pc[p] = "claimDailyLogin_insert"
  /\ reward_claims' = InsertRow(reward_claims,
        ClaimRow(loc[p].uid, "daily_login", NULL, DAILY_LOGIN_AMOUNT, today))
  /\ Goto(p, loc[p], "claimDailyLogin_addCoins")
  /\ UNCHANGED <<users, level_rewards, user_ads, today, morevars>>

\* const user = await addCoins(uid, 5)
claimDailyLogin_addCoins(p) ==
  /\ pc[p] = "claimDailyLogin_addCoins"
  /\ users' = addCoins(users, loc[p].uid, DAILY_LOGIN_AMOUNT)
  /\ LET user == getUserByUid(users', loc[p].uid)
     IN Goto(p, [loc[p] EXCEPT !.user = user, !.res = [user |-> user]],
             "claimDailyLogin_loginDays")
  /\ UNCHANGED <<reward_claims, level_rewards, user_ads, today, morevars>>

incLoginDays(u) == [u EXCEPT !.monthly_login_days = @ + 1]

\* UPDATE users SET monthly_login_days = monthly_login_days + 1 WHERE uid=$1
claimDailyLogin_loginDays(p) ==
  /\ pc[p] = "claimDailyLogin_loginDays"
  /\ users' = UpdateUser(users, loc[p].uid, incLoginDays)
  /\ Goto(p, loc[p], "recalc_select")
  /\ UNCHANGED <<reward_claims, level_rewards, user_ads, today, morevars>>

-----------------------------------------------------------------------------
(* claimLevelComplete *)

LevelRow(uid, level) == [uid |-> uid, level |-> level]

\* The same query without its level condition.
claimLevelCompleteExisting_anyLevel(lr, uid, level) ==
  RowCount(lr, LAMBDA r : r.uid = uid)

\* SELECT 1 FROM level_rewards WHERE uid=$1 AND level=$2  ->  rowCount
claimLevelCompleteExisting(lr, uid, level) ==
  RowCount(lr, LAMBDA r : r.uid = uid /\ r.level = level)

\* the SELECT; if (rowCount) return { already: true }
claimLevelComplete_select(p, uid, level) ==
  /\ LET l == [Loc0 EXCEPT !.op = "claimLevelComplete", !.uid = uid, !.level = level]
     IN IF claimLevelCompleteExisting(level_rewards, uid, level) > 0
          THEN CallReturn(p, l, Returned([already |-> TRUE]))
          ELSE Call(p, l, "claimLevelComplete_insert")
  /\ UNCHANGED <<dbvars, today, morevars>>

\* INSERT INTO level_rewards (uid,level,created_at) VALUES ($1,$2,NOW())
claimLevelComplete_insert(p) ==
  /\ pc[p] = "claimLevelComplete_insert"
  /\ level_rewards' = InsertRow(level_rewards, LevelRow(loc[p].uid, loc[p].level))
  /\ Goto(p, loc[p], "claimLevelComplete_addCoins")
  /\ UNCHANGED <<users, reward_claims, user_ads, today, morevars>>

\* const user = await addCoins(uid, 1)
claimLevelComplete_addCoins(p) ==
  /\ pc[p] = "claimLevelComplete_addCoins"
  /\ users' = addCoins(users, loc[p].uid, LEVEL_COMPLETE_AMOUNT)
  /\ LET user == getUserByUid(users', loc[p].uid)
     IN Goto(p, [loc[p] EXCEPT !.user = user, !.res = [user |-> user]],
             "claimLevelComplete_levels")
  /\ UNCHANGED <<reward_claims, level_rewards, user_ads, today, morevars>>

incLevelsCompleted(u) ==
  [u EXCEPT !.monthly_levels_completed = @ + 1, !.lifetime_levels_completed = @ + 1]

\* UPDATE users SET monthly_levels_completed = ... + 1, lifetime_levels_completed = ... + 1
claimLevelComplete_levels(p) ==
  /\ pc[p] = "claimLevelComplete_levels"
  /\ users' = UpdateUser(users, loc[p].uid, incLevelsCompleted)
  /\ Goto(p, loc[p], "recalc_select")
  /\ UNCHANGED <<reward_claims, level_rewards, user_ads, today, morevars>>

-----------------------------------------------------------------------------
(* addCoins and spendCoins called on their own *)

\* addCoins(uid, delta): one UPDATE ... RETURNING *
addCoins_call(p, uid, delta) ==
  /\ users' = addCoins(users, uid, delta)
  /\ CallReturn(p, [Loc0 EXCEPT !.op = "addCoins", !.uid = uid, !.amount = delta],
                Returned([user |-> getUserByUid(users', uid)]))
  /\ UNCHANGED <<reward_claims, level_rewards, user_ads, today, morevars>>

\* The same WHERE clause with a strict comparison.
canSpend_strict(us, uid, a) == uid \in DOMAIN us /\ us[uid].coins > a

\* UPDATE users SET coins = coins - $2, lifetime_coins_spent = ... + $2
\*   WHERE uid=$1 AND coins >= $2: whether a row matches
canSpend(us, uid, a) == uid \in DOMAIN us /\ us[uid].coins >= a

\* The same SET clause without the coins column.
spendCoinsRow_spentOnly(u, a) ==
  [u EXCEPT !.lifetime_coins_spent = @ + a]

spendCoinsRow(u, a) ==
  [u EXCEPT !.coins = @ - a, !.lifetime_coins_spent = @ + a]

\* const a = Math.abs(Number(amount || 0))
spendAmount(amount) == IF amount < 0 THEN 0 - amount ELSE amount

\* spendCoins(uid, amount): throws "Amount required" when a is 0, and
\* "Not enough coins" when the UPDATE matched no row
spendCoins_call(p, uid, amount) ==
  /\ LET l == [Loc0 EXCEPT !.op = "spendCoins", !.uid = uid, !.amount = amount]
         a == spendAmount(amount)
     IN IF a = 0
          THEN /\ users' = users
               /\ CallReturn(p, l, Threw("Amount required"))
          ELSE IF canSpend(users, uid, a)
          THEN /\ users' = UpdateUser(users, uid, LAMBDA u : spendCoinsRow(u, a))
               /\ CallReturn(p, l, Returned([user |-> getUserByUid(users', uid)]))
          ELSE /\ users' = users
               /\ CallReturn(p, l, Threw("Not enough coins"))
  /\ UNCHANGED <<reward_claims, level_rewards, user_ads, today, morevars>>

-----------------------------------------------------------------------------
(* trackAdView(uid, kind), called by the ad modes of useSkip and useHint *)

NewUserAds == [ads_for_coins |-> 0, ads_for_skips |-> 0, ads_for_hints |-> 0]

\* INSERT INTO user_ads (uid, month) VALUES ($1,$2) ON CONFLICT (uid, month) DO NOTHING
ensureUserAdsRow(ua, uid, month) ==
  IF <<uid, month>> \in DOMAIN ua
    THEN ua
    ELSE [k \in DOMAIN ua \cup {<<uid, month>>} |->
            IF k = <<uid, month>> THEN NewUserAds ELSE ua[k]]

\* UPDATE user_ads SET <column> = <column> + 1 WHERE uid=$1 AND month=$2
incUserAds(ua, uid, month, kind) ==
  IF <<uid, month>> \notin DOMAIN ua THEN ua
  ELSE IF kind = "coins" THEN [ua EXCEPT ![<<uid, month>>].ads_for_coins = @ + 1]
  ELSE IF kind = "skips" THEN [ua EXCEPT ![<<uid, month>>].ads_for_skips = @ + 1]
  ELSE [ua EXCEPT ![<<uid, month>>].ads_for_hints = @ + 1]

\* The column trackAdView counts the ads of a call in.
AdKind(op) ==
  IF op = "claimCoinAd" THEN "coins"
  ELSE IF op = "useSkip" THEN "skips" ELSE "hints"

trackAdView_insert(p) ==
  /\ pc[p] = "trackAdView_insert"
  /\ user_ads' = ensureUserAdsRow(user_ads, loc[p].uid, currentMonthKey)
  /\ Goto(p, [loc[p] EXCEPT !.month = currentMonthKey], "trackAdView_update")
  /\ UNCHANGED <<users, reward_claims, level_rewards, today, morevars>>

\* The UPDATE; claimCoinAd goes on to getMonthlyAds, useSkip to its monthly
\* counters, useHint returns.
trackAdView_update(p) ==
  /\ pc[p] = "trackAdView_update"
  /\ user_ads' = incUserAds(user_ads, loc[p].uid, loc[p].month, AdKind(loc[p].op))
  /\ IF loc[p].op = "claimCoinAd"
       THEN Goto(p, loc[p], "claimCoinAd_getMonthlyAds")
     ELSE IF loc[p].op = "useSkip"
       THEN Goto(p, loc[p], "useSkip_adMonthly")
       ELSE Finish(p, Returned(loc[p].res))
  /\ UNCHANGED <<users, reward_claims, level_rewards, today, morevars>>

\* SELECT 1 FROM reward_claims WHERE uid=$1 AND type=$t AND nonce=$2  ->  rowCount
adClaimExisting(rc, uid, type, nonce) ==
  RowCount(rc, LAMBDA r : r.uid = uid /\ r.type = type /\ r.nonce = nonce)

-----------------------------------------------------------------------------
(* claimCoinAd: the coin reward of an ad, smaller with every ad of the month *)

\* The same reward without its floor.
coinRewardForAd_noFloor(adsForCoinsThisMonth) == 50 - adsForCoinsThisMonth

\* coinRewardForAd: Math.max(50 - adsForCoinsThisMonth, 2)
coinRewardForAd(adsForCoinsThisMonth) == Max(50 - adsForCoinsThisMonth, 2)

\* getMonthlyAds: SELECT ads_for_coins, ... FROM user_ads WHERE uid = $1 AND
\*   month = $2; zeros without a row
getMonthlyAds(ua, uid, month) ==
  IF <<uid, month>> \in DOMAIN ua THEN ua[<<uid, month>>] ELSE NewUserAds

\* `coin-ad-${currentMonthKey()}-${ads.ads_for_coins}`
CoinAdNonce(month, n) == <<"coin-ad", month, n>>

\* await trackAdView(uid, "coins"): its INSERT, the first statement of the call.
\* At most budget calls begin.
claimCoinAd(p, uid, budget) ==
  /\ user_ads' = ensureUserAdsRow(user_ads, uid, currentMonthKey)
  /\ CallWithin(p, [Loc0 EXCEPT !.op = "claimCoinAd", !.uid = uid,
                                !.month = currentMonthKey],
                "trackAdView_update", budget)
  /\ UNCHANGED <<users, reward_claims, level_rewards, today, morevars>>

\* const ads = await getMonthlyAds(uid); the amount and the nonce of the claim
claimCoinAd_getMonthlyAds(p) ==
  /\ pc[p] = "claimCoinAd_getMonthlyAds"
  /\ LET ads == getMonthlyAds(user_ads, loc[p].uid, currentMonthKey)
     IN Goto(p, [loc[p] EXCEPT !.type = "ad",
                               !.amount = coinRewardForAd(ads.ads_for_coins - 1),
                               !.nonce = CoinAdNonce(currentMonthKey, ads.ads_for_coins)],
             "claimCoinAd_claimReward")
  /\ UNCHANGED <<dbvars, today, morevars>>

\* claimReward({ uid, type: "ad", nonce, amount: coins }): its SELECT
claimCoinAd_claimReward(p) ==
  /\ pc[p] = "claimCoinAd_claimReward"
  /\ IF claimRewardExisting(reward_claims, loc[p].uid, loc[p].nonce) > 0
       THEN Finish(p, Returned([already |-> TRUE]))
       ELSE Goto(p, loc[p], "claimReward_insert")
  /\ UNCHANGED <<dbvars, today, morevars>>

-----------------------------------------------------------------------------
(* POST /api/rewards/ad-50: requirePiUser (upsertUser, ensureMonthlyKey),    *)
(* then claimReward of type ad_50 with the nonce of the request              *)

\* The same UPDATE without the monthly_ads_watched column and with the coins.
resetMonthly_coinsNotAds(u, mk) ==
  [u EXCEPT !.monthly_key = <<mk>>,
            !.coins = 0,
            !.monthly_coins_earned = 0,
            !.monthly_login_days = 0,
            !.monthly_levels_completed = 0,
            !.monthly_skips_used = 0,
            !.monthly_hints_used = 0,
            !.monthly_restarts_used = 0,
            !.monthly_valid_invites = 0,
            !.monthly_max_win_streak = 0,
            !.monthly_rate_breakdown = EmptyBreakdown,
            !.monthly_final_rate = 50]

\* (ensureMonthlyKey) UPDATE users SET monthly_key = $2, monthly_... = 0, ... WHERE uid = $1
resetMonthly(u, mk) ==
  [u EXCEPT !.monthly_key = <<mk>>,
            !.monthly_coins_earned = 0,
            !.monthly_login_days = 0,
            !.monthly_levels_completed = 0,
            !.monthly_skips_used = 0,
            !.monthly_hints_used = 0,
            !.monthly_restarts_used = 0,
            !.monthly_ads_watched = 0,
            !.monthly_valid_invites = 0,
            !.monthly_max_win_streak = 0,
            !.monthly_rate_breakdown = EmptyBreakdown,
            !.monthly_final_rate = 50]

\* const { uid } = await requirePiUser(req): its upsertUser
ad50_upsertUser(p, uid, nonce) ==
  /\ users' = upsertUserRow(users, uid, PiUsername(uid))
  /\ Call(p, [Loc0 EXCEPT !.op = "ad50", !.uid = uid, !.type = "ad_50",
                          !.nonce = nonce, !.amount = AD_50_AMOUNT],
          "ensureMonthlyKey_select")
  /\ UNCHANGED <<reward_claims, level_rewards, user_ads, today, morevars>>

\* A comparison that never finds the stored key current.
sameMonthKey_never(cur, mk) == FALSE

\* if (cur === mk) return mk
sameMonthKey(cur, mk) == cur = <<mk>>

\* ensureMonthlyKey(uid) called by itself
ensureMonthlyKey(p, uid) ==
  /\ Call(p, [Loc0 EXCEPT !.op = "ensureMonthlyKey", !.uid = uid],
          "ensureMonthlyKey_select")
  /\ UNCHANGED <<dbvars, today, morevars>>

\* return mk: back in requirePiUser, the request goes on with its route
ensureMonthlyKey_return(p, l, mk) ==
  IF l.op = "ensureMonthlyKey" THEN Finish(p, Returned([mk |-> mk]))
  ELSE IF l.op = "requirePiUser" THEN Goto(p, l, "requirePiUser_touch")
  ELSE IF l.op = "apiFreeThenPaid" THEN Goto(p, l, "apiFreeThenPaid_begin")
  ELSE IF l.op = "patchUsername" THEN Goto(p, l, "patchUsername_update")
  ELSE IF l.op = "patchUsernameChecked" THEN Goto(p, l, "patchUsernameChecked_select")
  ELSE Goto(p, l, "claimCoinAd_claimReward")

\* const mk = currentMonthKey(); SELECT monthly_key FROM users WHERE uid=$1;
\* if (cur === mk) return mk
ensureMonthlyKey_select(p) ==
  /\ pc[p] = "ensureMonthlyKey_select"
  /\ LET mk == currentMonthKey
         u == getUserByUid(users, loc[p].uid)
         cur == IF u = NoRow THEN <<>> ELSE u.monthly_key
     IN IF sameMonthKey(cur, mk)
          THEN ensureMonthlyKey_return(p, loc[p], mk)
          ELSE Goto(p, [loc[p] EXCEPT !.month = mk], "ensureMonthlyKey_update")
  /\ UNCHANGED <<dbvars, today, morevars>>

\* UPDATE users SET monthly_key = $2, monthly_ads_watched = 0, ... WHERE uid = $1
ensureMonthlyKey_update(p) ==
  /\ pc[p] = "ensureMonthlyKey_update"
  /\ users' = UpdateUser(users, loc[p].uid, LAMBDA u : resetMonthly(u, loc[p].month))
  /\ ensureMonthlyKey_return(p, loc[p], loc[p].month)
  /\ UNCHANGED <<reward_claims, level_rewards, user_ads, today, morevars>>

-----------------------------------------------------------------------------
(* PATCH /api/user/username.  index.ts registers two handlers for the method *)
(* and path; express runs the first, which answers every request, so the     *)
(* second never runs.                                                        *)

\* username.length < 3 || username.length > 20
ValidUsername(username) == Len(username) >= 3 /\ Len(username) <= 20

\* UPDATE public.users SET username=$1 WHERE uid=$2
setUsername(us, uid, username) ==
  IF uid \in DOMAIN us THEN [us EXCEPT ![uid].username = username] ELSE us

\* The first handler: const { uid } = await requirePiUser(req): its upsertUser
patchUsername(p, uid, username) ==
  /\ users' = upsertUserRow(users, uid, PiUsername(uid))
  /\ Call(p, [Loc0 EXCEPT !.op = "patchUsername", !.uid = uid, !.username = username],
          "ensureMonthlyKey_select")
  /\ UNCHANGED <<reward_claims, level_rewards, user_ads, today, morevars>>

\* if (!username || username.length < 3 || username.length > 20) return 400;
\* UPDATE public.users SET username=$1 WHERE uid=$2; res.json({ ok: true })
patchUsername_update(p) ==
  /\ pc[p] = "patchUsername_update"
  /\ IF ValidUsername(loc[p].username)
       THEN /\ users' = setUsername(users, loc[p].uid, loc[p].username)
            /\ Finish(p, Returned([ok |-> TRUE]))
       ELSE /\ users' = users
            /\ Finish(p, Returned([ok |-> FALSE, error |-> "Invalid username"]))
  /\ UNCHANGED <<reward_claims, level_rewards, user_ads, today, morevars>>

\* The second handler, as it would run were it the one registered:
\* requirePiUser, the checks of the name, then
\* SELECT uid FROM public.users WHERE LOWER(username)=LOWER($1) AND uid<>$2
patchUsernameChecked(p, uid, username) ==
  /\ users' = upsertUserRow(users, uid, PiUsername(uid))
  /\ Call(p, [Loc0 EXCEPT !.op = "patchUsernameChecked", !.uid = uid,
                          !.username = username],
          "ensureMonthlyKey_select")
  /\ UNCHANGED <<reward_claims, level_rewards, user_ads, today, morevars>>

patchUsernameChecked_select(p) ==
  /\ pc[p] = "patchUsernameChecked_select"
  /\ IF ~ValidUsername(loc[p].username)
       THEN Finish(p, Returned([ok |-> FALSE, error |-> "Username must be 3-20 characters"]))
       ELSE IF \E other \in DOMAIN users \ {loc[p].uid} :
                 users[other].username = loc[p].username
       THEN Finish(p, Returned([ok |-> FALSE, error |-> "Username already taken"]))
       ELSE Goto(p, loc[p], "patchUsernameChecked_update")
  /\ UNCHANGED <<dbvars, today, morevars>>

\* UPDATE public.users SET username=$1 WHERE uid=$2; res.json({ ok: true, username })
patchUsernameChecked_update(p) ==
  /\ pc[p] = "patchUsernameChecked_update"
  /\ users' = setUsername(users, loc[p].uid, loc[p].username)
  /\ Finish(p, Returned([ok |-> TRUE, username |-> loc[p].username]))
  /\ UNCHANGED <<reward_claims, level_rewards, user_ads, today, morevars>>

-----------------------------------------------------------------------------
(* Transactions on a client of the pool (BEGIN ... COMMIT / ROLLBACK).  What *)
(* a transaction has written is kept with the request until COMMIT makes it  *)
(* part of the tables; ROLLBACK drops it.  The rows it read FOR UPDATE are   *)
(* locked until then: a statement of another request that writes or locks    *)
(* one of them waits.                                                        *)

\* The columns of the users table.
UsersColumns == DOMAIN NewUser(NULL) \cup {"uid", "updated_at"}

\* The row INSERT INTO monthly_payouts (uid, month, coins_collected, status, created_at)
\* VALUES ($1,$2,$3,'pending',NOW()) creates.
PayoutRow(uid, month, coins) ==
  [uid |-> uid, month |-> month, coins_collected |-> coins, status |-> "pending"]

\* Number of monthly_payouts rows of an account for a month.
PayoutRows(mp, uid, month) == RowCount(mp, LAMBDA r : r.uid = uid /\ r.month = month)

\* The same INSERT without its ON CONFLICT clause, into a table without the key.
insertPayout_always(mp, uid, month, coins) ==
  InsertRow(mp, PayoutRow(uid, month, coins))

\* INSERT INTO monthly_payouts ... ON CONFLICT (uid, month) DO NOTHING
insertPayout(mp, uid, month, coins) ==
  IF PayoutRows(mp, uid, month) > 0
    THEN mp
    ELSE InsertRow(mp, PayoutRow(uid, month, coins))

\* The statements of a transaction: the rows it locked, the coins it read, the
\* monthly_payouts rows it inserted and the users rows it rewrote.
NewTx(locked, coins) ==
  [locked |-> locked, coins |-> coins, uid |-> NULL, payouts |-> EmptyBag,
   users |-> << >>]

TxSteps ==
  {"closeMonth_insert", "closeMonth_update", "closeMonth_commit",
   "claimMonthly_insert", "claimMonthly_update", "claimMonthly_commit"}

\* The request is inside a transaction that holds row locks.
InTx(p) == pc[p] \in TxSteps \cup {"closeMonth_rollback", "claimMonthly_rollback"}
                /\ loc[p].out # NoRow

\* A users row is locked by the transaction of another request.
RowLocked(p, uid) ==
  \E q \in Procs \ {p} : InTx(q) /\ uid \in loc[q].out.locked

\* monthly_payouts as the transaction sees it: the table and its own inserts.
txPayouts(tx) == monthly_payouts (+) tx.payouts

\* The INSERT of a transaction: what it adds to its own inserts.
txInsertPayout(tx, uid, month, coins) ==
  [tx EXCEPT !.payouts = insertPayout(txPayouts(tx), uid, month, coins) (-) monthly_payouts]

\* The UPDATE of a users row by a transaction.
txUpdateUser(tx, uid, row) ==
  [tx EXCEPT !.users = [u \in DOMAIN tx.users \cup {uid} |->
                          IF u = uid THEN row ELSE tx.users[u]]]

\* COMMIT
commitPayouts(mp, tx) == mp (+) tx.payouts
commitUsers(us, tx) ==
  [u \in DOMAIN us |-> IF u \in DOMAIN tx.users THEN tx.users[u] ELSE us[u]]

\* A ROLLBACK that leaves the inserts of the transaction in the table.
rollbackPayouts_keep(mp, tx) == mp (+) tx.payouts

\* ROLLBACK
rollbackPayouts(mp, tx) == mp

\* A statement of the transaction is rejected (a lost connection, a statement
\* timeout): the exception goes to the catch block, which rolls back.
txFails(p) ==
  /\ pc[p] \in TxSteps
  /\ Goto(p, [loc[p] EXCEPT !.res = Threw("query failed")],
          IF loc[p].op = "closeMonthAndResetCoins"
            THEN "closeMonth_rollback" ELSE "claimMonthly_rollback")
  /\ UNCHANGED <<dbvars, today, morevars>>

-----------------------------------------------------------------------------
(* closeMonthAndResetCoins *)

\* const month = String(opts?.month || currentMonthKey()); pool.connect(); BEGIN
closeMonthAndResetCoins(p, month) ==
  /\ Call(p, [Loc0 EXCEPT !.op = "closeMonthAndResetCoins", !.month = month],
          "closeMonth_select")
  /\ UNCHANGED <<dbvars, today, morevars>>

\* SELECT uid, coins FROM users WHERE COALESCE(coins,0) <> 0 FOR UPDATE
closeMonth_select(p) ==
  /\ pc[p] = "closeMonth_select"
  /\ LET rows == {uid \in DOMAIN users : users[uid].coins # 0}
         tx == NewTx(rows, [uid \in rows |-> users[uid].coins])
     IN /\ \A uid \in rows : ~RowLocked(p, uid)
        /\ Goto(p, [loc[p] EXCEPT !.out = tx],
                IF rows = {} THEN "closeMonth_commit" ELSE "closeMonth_insert")
  /\ UNCHANGED <<dbvars, today, morevars>>

\* for (const r of rows): INSERT INTO monthly_payouts ... ON CONFLICT DO NOTHING
closeMonth_insert(p) ==
  /\ pc[p] = "closeMonth_insert"
  /\ \E uid \in loc[p].out.locked \ DOMAIN loc[p].out.users :
       Goto(p, [loc[p] EXCEPT
                  !.out = [txInsertPayout(@, uid, loc[p].month, @.coins[uid])
                             EXCEPT !.uid = uid]],
            "closeMonth_update")
  /\ UNCHANGED <<dbvars, today, morevars>>

\* UPDATE users SET coins = 0, coins_month = $2, updated_at = NOW() WHERE uid = $1:
\* a statement that names a column the table does not have is an error, and
\* the catch block goes on to ROLLBACK.
closeMonth_update(p) ==
  /\ pc[p] = "closeMonth_update"
  /\ IF {"coins", "coins_month", "updated_at"} \subseteq UsersColumns
       THEN LET uid == loc[p].out.uid
                tx == txUpdateUser(loc[p].out, uid, [users[uid] EXCEPT !.coins = 0])
            IN Goto(p, [loc[p] EXCEPT !.out = tx],
                    IF tx.locked \ DOMAIN tx.users = {}
                      THEN "closeMonth_commit" ELSE "closeMonth_insert")
       ELSE Goto(p, [loc[p] EXCEPT
                       !.res = Threw("column coins_month does not exist")],
                 "closeMonth_rollback")
  /\ UNCHANGED <<dbvars, today, morevars>>

\* COMMIT; return { ok: true, month, users_reset, total_coins_reset }
closeMonth_commit(p) ==
  /\ pc[p] = "closeMonth_commit"
  /\ monthly_payouts' = commitPayouts(monthly_payouts, loc[p].out)
  /\ users' = commitUsers(users, loc[p].out)
  /\ Finish(p, Returned([ok |-> TRUE, month |-> loc[p].month,
                         users_reset |-> Cardinality(loc[p].out.locked)]))
  /\ UNCHANGED <<reward_claims, level_rewards, user_ads, today,
                 user_monthly_state, coin_events>>

\* catch (e) { ROLLBACK; throw e }
closeMonth_rollback(p) ==
  /\ pc[p] = "closeMonth_rollback"
  /\ monthly_payouts' = rollbackPayouts(monthly_payouts, loc[p].out)
  /\ Finish(p, loc[p].res)
  /\ UNCHANGED <<users, reward_claims, level_rewards, user_ads, today,
                 user_monthly_state, coin_events>>

-----------------------------------------------------------------------------
(* claimMonthlyRewards *)

\* prevMonthKey(): the month before the current one.
prevMonthKey == currentMonthKey - 1

\* UPDATE users SET coins = 0, monthly_key = $2, monthly_... = 0, ... WHERE uid=$1
resetForPayout(u, mk) == [resetMonthly(u, mk) EXCEPT !.coins = 0]

\* const month = String(opts?.month || prevMonthKey()); pool.connect(); BEGIN
claimMonthlyRewards(p, uid, month) ==
  /\ Call(p, [Loc0 EXCEPT !.op = "claimMonthlyRewards", !.uid = uid, !.month = month],
          "claimMonthly_select")
  /\ UNCHANGED <<dbvars, today, morevars>>

\* SELECT * FROM users WHERE uid=$1 FOR UPDATE; if (!u) throw "User not found";
\* coinsCollected = u.coins; rate = u.monthly_final_rate clamped to 0..100
claimMonthly_select(p) ==
  /\ pc[p] = "claimMonthly_select"
  /\ ~RowLocked(p, loc[p].uid)
  /\ LET uid == loc[p].uid
         u == getUserByUid(users, uid)
     IN IF u = NoRow
          THEN Goto(p, [loc[p] EXCEPT !.out = NewTx({}, << >>),
                                      !.res = Threw("User not found")],
                    "claimMonthly_rollback")
          ELSE Goto(p, [loc[p] EXCEPT
                          !.out = NewTx({uid}, [x \in {uid} |-> u.coins]),
                          !.amount = Max(0, Min(100, u.monthly_final_rate))],
                    "claimMonthly_insert")
  /\ UNCHANGED <<dbvars, today, morevars>>

\* INSERT INTO monthly_payouts (uid, month, coins_collected, pi_amount, status, created_at)
\* VALUES ($1,$2,$3,NULL,'pending',NOW()) ON CONFLICT (uid, month) DO NOTHING
claimMonthly_insert(p) ==
  /\ pc[p] = "claimMonthly_insert"
  /\ Goto(p, [loc[p] EXCEPT
                !.out = txInsertPayout(@, loc[p].uid, loc[p].month, @.coins[loc[p].uid])],
          "claimMonthly_update")
  /\ UNCHANGED <<dbvars, today, morevars>>

\* UPDATE users SET coins = 0, monthly_key = $2, monthly_... = 0 ... WHERE uid=$1
\* with $2 = currentMonthKey()
claimMonthly_update(p) ==
  /\ pc[p] = "claimMonthly_update"
  /\ Goto(p, [loc[p] EXCEPT
                !.out = txUpdateUser(@, loc[p].uid,
                                     resetForPayout(users[loc[p].uid], currentMonthKey))],
          "claimMonthly_commit")
  /\ UNCHANGED <<dbvars, today, morevars>>

\* COMMIT; return { ok: true, month, coins_collected, rate_snapshot }
claimMonthly_commit(p) ==
  /\ pc[p] = "claimMonthly_commit"
  /\ monthly_payouts' = commitPayouts(monthly_payouts, loc[p].out)
  /\ users' = commitUsers(users, loc[p].out)
  /\ Finish(p, Returned([ok |-> TRUE, month |-> loc[p].month,
                         coins_collected |-> loc[p].out.coins[loc[p].uid],
                         rate_snapshot |-> loc[p].amount]))
  /\ UNCHANGED <<reward_claims, level_rewards, user_ads, today,
                 user_monthly_state, coin_events>>

\* catch (e) { ROLLBACK; throw e }
claimMonthly_rollback(p) ==
  /\ pc[p] = "claimMonthly_rollback"
  /\ monthly_payouts' = rollbackPayouts(monthly_payouts, loc[p].out)
  /\ Finish(p, loc[p].res)
  /\ UNCHANGED <<users, reward_claims, level_rewards, user_ads, today,
                 user_monthly_state, coin_events>>

-----------------------------------------------------------------------------
(* useRestarts *)

\* if (user.free_restarts_used >= 3) return { ok: false, error: "NO_FREE_RESTARTS" }
freeRestartsLeft(user) == ~(user.free_restarts_used >= 3)

\* const user = await getUserByUid(uid); then the branch of the mode.  A mode
\* other than free and coins falls off the end of the function.
useRestarts_select(p, uid, mode, nonce) ==
  /\ LET user == getUserByUid(users, uid)
         l == [Loc0 EXCEPT !.op = "useRestarts", !.uid = uid, !.mode = mode,
                           !.nonce = nonce, !.user = user]
     IN IF user = NoRow THEN CallReturn(p, l, Threw("User not found"))
        ELSE IF mode = "free"
          THEN IF freeRestartsLeft(user)
                 THEN Call(p, l, "useRestarts_free")
                 ELSE CallReturn(p, l, Returned([ok |-> FALSE, error |-> "NO_FREE_RESTARTS"]))
        ELSE IF mode = "coins" THEN Call(p, l, "useRestarts_spend")
        ELSE CallReturn(p, l, Returned(NoRow))
  /\ UNCHANGED <<dbvars, today, morevars>>

incFreeRestarts(u) == [u EXCEPT !.free_restarts_used = @ + 1]

\* UPDATE users SET free_restarts_used = free_restarts_used + 1 WHERE uid=$1 RETURNING *
useRestarts_free(p) ==
  /\ pc[p] = "useRestarts_free"
  /\ users' = UpdateUser(users, loc[p].uid, incFreeRestarts)
  /\ Finish(p, Returned([ok |-> TRUE, user |-> getUserByUid(users', loc[p].uid)]))
  /\ UNCHANGED <<reward_claims, level_rewards, user_ads, today, morevars>>

\* const u = await spendCoins(uid, RESTART_COST_COINS)
useRestarts_spend(p) ==
  /\ pc[p] = "useRestarts_spend"
  /\ IF canSpend(users, loc[p].uid, RESTART_COST_COINS)
       THEN /\ users' = UpdateUser(users, loc[p].uid,
                                   LAMBDA u : spendCoinsRow(u, RESTART_COST_COINS))
            /\ Goto(p, [loc[p] EXCEPT !.res = [ok |-> TRUE,
                                               user |-> getUserByUid(users', loc[p].uid)]],
                    "useRestarts_coinInsert")
       ELSE /\ users' = users
            /\ Finish(p, Threw("Not enough coins"))
  /\ UNCHANGED <<reward_claims, level_rewards, user_ads, today, morevars>>

\* INSERT INTO reward_claims (uid,type,amount,created_at) VALUES ($1,'restart_coin',-$2,NOW())
useRestarts_coinInsert(p) ==
  /\ pc[p] = "useRestarts_coinInsert"
  /\ reward_claims' = InsertRow(reward_claims,
        ClaimRow(loc[p].uid, "restart_coin", NULL, -RESTART_COST_COINS, today))
  /\ Finish(p, Returned(loc[p].res))
  /\ UNCHANGED <<users, level_rewards, user_ads, today, morevars>>

-----------------------------------------------------------------------------
(* useSkip *)

\* The same test off by one.
freeSkipsLeft_offByOne(user) == ~(user.free_skips_used > 3)

\* if (user.free_skips_used >= 3) return { ok: false, error: "NO_FREE_SKIPS" }
freeSkipsLeft(user) == ~(user.free_skips_used >= 3)

\* const user = await getUserByUid(uid); then the branch of the mode
useSkip_select(p, uid, mode, nonce) ==
  /\ LET user == getUserByUid(users, uid)
         l == [Loc0 EXCEPT !.op = "useSkip", !.uid = uid, !.mode = mode,
                           !.nonce = nonce, !.user = user]
     IN IF user = NoRow THEN CallReturn(p, l, Threw("User not found"))
        ELSE IF mode = "free"
          THEN IF freeSkipsLeft(user)
                 THEN Call(p, l, "useSkip_free")
                 ELSE CallReturn(p, l, Returned([ok |-> FALSE, error |-> "NO_FREE_SKIPS"]))
        ELSE IF mode = "coins" THEN Call(p, l, "useSkip_spend")
        ELSE IF mode = "ad"
          THEN IF nonce = NULL
                 THEN CallReturn(p, l, Threw("Missing nonce"))
                 ELSE Call(p, l, "useSkip_adSelect")
        ELSE CallReturn(p, l, Threw("INVALID_SKIP_MODE"))
  /\ UNCHANGED <<dbvars, today, morevars>>

incFreeSkips(u) == [u EXCEPT !.free_skips_used = @ + 1]

\* UPDATE users SET free_skips_used = free_skips_used + 1 WHERE uid=$1 RETURNING *
useSkip_free(p) ==
  /\ pc[p] = "useSkip_free"
  /\ users' = UpdateUser(users, loc[p].uid, incFreeSkips)
  /\ Goto(p, [loc[p] EXCEPT !.res = [ok |-> TRUE,
                                     user |-> getUserByUid(users', loc[p].uid)]],
          "useSkip_monthly")
  /\ UNCHANGED <<reward_claims, level_rewards, user_ads, today, morevars>>

incMonthlySkips(u) == [u EXCEPT !.monthly_skips_used = @ + 1]

\* UPDATE users SET monthly_skips_used = monthly_skips_used + 1 WHERE uid=$1
\* (free and coins modes), then recalcAndStoreMonthlyRate
useSkip_monthly(p) ==
  /\ pc[p] = "useSkip_monthly"
  /\ users' = UpdateUser(users, loc[p].uid, incMonthlySkips)
  /\ Goto(p, loc[p], "recalc_select")
  /\ UNCHANGED <<reward_claims, level_rewards, user_ads, today, morevars>>

\* const u = await spendCoins(uid, SKIP_COST_COINS)
useSkip_spend(p) ==
  /\ pc[p] = "useSkip_spend"
  /\ IF canSpend(users, loc[p].uid, SKIP_COST_COINS)
       THEN /\ users' = UpdateUser(users, loc[p].uid,
                                   LAMBDA u : spendCoinsRow(u, SKIP_COST_COINS))
            /\ Goto(p, [loc[p] EXCEPT !.res = [ok |-> TRUE,
                                               user |-> getUserByUid(users', loc[p].uid)]],
                    "useSkip_coinInsert")
       ELSE /\ users' = users
            /\ Finish(p, Threw("Not enough coins"))
  /\ UNCHANGED <<reward_claims, level_rewards, user_ads, today, morevars>>

\* INSERT INTO reward_claims (uid,type,amount,created_at) VALUES ($1,'skip_coin',-$2,NOW())
useSkip_coinInsert(p) ==
  /\ pc[p] = "useSkip_coinInsert"
  /\ reward_claims' = InsertRow(reward_claims,
        ClaimRow(loc[p].uid, "skip_coin", NULL, -SKIP_COST_COINS, today))
  /\ Goto(p, loc[p], "useSkip_monthly")
  /\ UNCHANGED <<users, level_rewards, user_ads, today, morevars>>

\* the SELECT of the ad mode; if (already.rowCount) return { ok, already, user }
useSkip_adSelect(p) ==
  /\ pc[p] = "useSkip_adSelect"
  /\ IF adClaimExisting(reward_claims, loc[p].uid, "skip_ad", loc[p].nonce) > 0
       THEN Finish(p, Returned([ok |-> TRUE, already |-> TRUE, user |-> loc[p].user]))
       ELSE Goto(p, loc[p], "useSkip_adInsert")
  /\ UNCHANGED <<dbvars, today, morevars>>

\* INSERT INTO reward_claims (uid,type,nonce,amount,created_at) VALUES ($1,'skip_ad',$2,0,NOW())
\* and then trackAdView(uid, "skips")
useSkip_adInsert(p) ==
  /\ pc[p] = "useSkip_adInsert"
  /\ reward_claims' = InsertRow(reward_claims,
        ClaimRow(loc[p].uid, "skip_ad", loc[p].nonce, 0, today))
  /\ Goto(p, loc[p], "trackAdView_insert")
  /\ UNCHANGED <<users, level_rewards, user_ads, today, morevars>>

incMonthlySkipsAndAds(u) ==
  [u EXCEPT !.monthly_skips_used = @ + 1, !.monthly_ads_watched = @ + 1]

\* UPDATE users SET monthly_skips_used = ... + 1, monthly_ads_watched = ... + 1 WHERE uid=$1
useSkip_adMonthly(p) ==
  /\ pc[p] = "useSkip_adMonthly"
  /\ users' = UpdateUser(users, loc[p].uid, incMonthlySkipsAndAds)
  /\ Goto(p, [loc[p] EXCEPT !.res = [ok |-> TRUE, user |-> loc[p].user]], "recalc_select")
  /\ UNCHANGED <<reward_claims, level_rewards, user_ads, today, morevars>>

-----------------------------------------------------------------------------
(* useHint *)

\* getFreeHintsLeft(u) = max(0, FREE_HINTS_PER_ACCOUNT - used)
getFreeHintsLeft(user) == Max(0, FREE_HINTS_PER_ACCOUNT - user.free_hints_used)

\* const user = await getUserByUid(uid); then the branch of the mode: every
\* mode other than free and coins is taken as the ad mode.
useHint_select(p, uid, mode, nonce) ==
  /\ LET user == getUserByUid(users, uid)
         l == [Loc0 EXCEPT !.op = "useHint", !.uid = uid, !.mode = mode,
                           !.nonce = nonce, !.user = user]
     IN IF user = NoRow THEN CallReturn(p, l, Threw("User not found"))
        ELSE IF mode = "free"
          THEN IF getFreeHintsLeft(user) <= 0
                 THEN CallReturn(p, l, Threw("No free hints left"))
                 ELSE Call(p, l, "useHint_free")
        ELSE IF mode = "coins" THEN Call(p, l, "useHint_spend")
        ELSE IF nonce = NULL
          THEN CallReturn(p, l, Threw("Missing nonce"))
          ELSE Call(p, l, "useHint_adSelect")
  /\ UNCHANGED <<dbvars, today, morevars>>

incFreeHints(u) == [u EXCEPT !.free_hints_used = @ + 1]

\* UPDATE users SET free_hints_used = free_hints_used + 1 WHERE uid=$1 RETURNING *
useHint_free(p) ==
  /\ pc[p] = "useHint_free"
  /\ users' = UpdateUser(users, loc[p].uid, incFreeHints)
  /\ Finish(p, Returned([ok |-> TRUE, user |-> getUserByUid(users', loc[p].uid)]))
  /\ UNCHANGED <<reward_claims, level_rewards, user_ads, today, morevars>>

\* const u = await spendCoins(uid, HINT_COST_COINS)
useHint_spend(p) ==
  /\ pc[p] = "useHint_spend"
  /\ IF canSpend(users, loc[p].uid, HINT_COST_COINS)
       THEN /\ users' = UpdateUser(users, loc[p].uid,
                                   LAMBDA u : spendCoinsRow(u, HINT_COST_COINS))
            /\ Goto(p, [loc[p] EXCEPT !.res = [ok |-> TRUE,
                                               user |-> getUserByUid(users', loc[p].uid)]],
                    "useHint_coinInsert")
       ELSE /\ users' = users
            /\ Finish(p, Threw("Not enough coins"))
  /\ UNCHANGED <<reward_claims, level_rewards, user_ads, today, morevars>>

\* INSERT INTO reward_claims (uid,type,amount,created_at) VALUES ($1,'hint_coin',-$2,NOW())
useHint_coinInsert(p) ==
  /\ pc[p] = "useHint_coinInsert"
  /\ reward_claims' = InsertRow(reward_claims,
        ClaimRow(loc[p].uid, "hint_coin", NULL, -HINT_COST_COINS, today))
  /\ Finish(p, Returned(loc[p].res))
  /\ UNCHANGED <<users, level_rewards, user_ads, today, morevars>>

\* the SELECT of the ad mode; if (already.rowCount) return { ok, already, user }
useHint_adSelect(p) ==
  /\ pc[p] = "useHint_adSelect"
  /\ IF adClaimExisting(reward_claims, loc[p].uid, "hint_ad", loc[p].nonce) > 0
       THEN Finish(p, Returned([ok |-> TRUE, already |-> TRUE, user |-> loc[p].user]))
       ELSE Goto(p, loc[p], "useHint_adInsert")
  /\ UNCHANGED <<dbvars, today, morevars>>

\* INSERT INTO reward_claims (uid,type,nonce,amount,created_at) VALUES ($1,'hint_ad',$2,0,NOW())
\* and then trackAdView(uid, "hints"); return { ok: true, user }
useHint_adInsert(p) ==
  /\ pc[p] = "useHint_adInsert"
  /\ reward_claims' = InsertRow(reward_claims,
        ClaimRow(loc[p].uid, "hint_ad", loc[p].nonce, 0, today))
  /\ Goto(p, [loc[p] EXCEPT !.res = [ok |-> TRUE, user |-> loc[p].user]],
          "trackAdView_insert")
  /\ UNCHANGED <<users, level_rewards, user_ads, today, morevars>>

-----------------------------------------------------------------------------
(* The coin_events variant of the database layer (src/unnamed/part_008):    *)
(* monthly free allowances in user_monthly_state, coins changed through     *)
(* addCoinEvent.  Its useSkip(uid) and useHint(uid) take no mode.            *)

\* VALUES ($1, $2, 3, 3, 0, 0)
NewMonthlyState ==
  [free_skips_left |-> 3, free_hints_left |-> 3,
   ads_watched_for_coins |-> 0, ads_watched_for_actions |-> 0]

\* getMonthlyState: INSERT INTO user_monthly_state ... ON CONFLICT (uid, month)
\*   DO UPDATE SET uid = EXCLUDED.uid RETURNING *
getMonthlyState(ums, uid, month) ==
  IF <<uid, month>> \in DOMAIN ums
    THEN ums
    ELSE [k \in DOMAIN ums \cup {<<uid, month>>} |->
            IF k = <<uid, month>> THEN NewMonthlyState ELSE ums[k]]

\* UPDATE user_monthly_state SET <column> = <column> - 1 WHERE uid = $1 AND month = $2
decFreeLeft(ums, uid, month, op) ==
  IF <<uid, month>> \notin DOMAIN ums THEN ums
  ELSE IF op = "useSkip(uid)"
    THEN [ums EXCEPT ![<<uid, month>>].free_skips_left = @ - 1]
    ELSE [ums EXCEPT ![<<uid, month>>].free_hints_left = @ - 1]

\* useSkip(uid): const state = await getMonthlyState(uid); if (state.free_skips_left > 0)
\* the free use, else addCoinEvent({ uid, type: "skip_purchase", amount: -50 })
useSkip_getMonthlyState(p, uid) ==
  /\ user_monthly_state' = getMonthlyState(user_monthly_state, uid, currentMonthKey)
  /\ LET state == user_monthly_state'[<<uid, currentMonthKey>>]
         l == [Loc0 EXCEPT !.op = "useSkip(uid)", !.uid = uid,
                           !.type = "skip_purchase", !.amount = -50]
     IN Call(p, l, IF state.free_skips_left > 0 THEN "freeLeft_update"
                                                ELSE "addCoinEvent_insert")
  /\ UNCHANGED <<dbvars, monthly_payouts, coin_events, today>>

\* useHint(uid): the same with free_hints_left and type "hint_purchase"
useHint_getMonthlyState(p, uid) ==
  /\ user_monthly_state' = getMonthlyState(user_monthly_state, uid, currentMonthKey)
  /\ LET state == user_monthly_state'[<<uid, currentMonthKey>>]
         l == [Loc0 EXCEPT !.op = "useHint(uid)", !.uid = uid,
                           !.type = "hint_purchase", !.amount = -50]
     IN Call(p, l, IF state.free_hints_left > 0 THEN "freeLeft_update"
                                                ELSE "addCoinEvent_insert")
  /\ UNCHANGED <<dbvars, monthly_payouts, coin_events, today>>

\* The UPDATE of the free branch; return { mode: "free" }
freeLeft_update(p) ==
  /\ pc[p] = "freeLeft_update"
  /\ user_monthly_state' = decFreeLeft(user_monthly_state, loc[p].uid,
                                       currentMonthKey, loc[p].op)
  /\ Finish(p, Returned([mode |-> "free"]))
  /\ UNCHANGED <<dbvars, monthly_payouts, coin_events, today>>

\* addCoinEvent: INSERT INTO coin_events (id, uid, type, amount, meta, created_at)
addCoinEvent_insert(p) ==
  /\ pc[p] = "addCoinEvent_insert"
  /\ coin_events' = InsertRow(coin_events,
        [uid |-> loc[p].uid, type |-> loc[p].type, amount |-> loc[p].amount])
  /\ Goto(p, loc[p], "addCoinEvent_update")
  /\ UNCHANGED <<dbvars, monthly_payouts, user_monthly_state, today>>

\* UPDATE users SET coins = coins + $1 WHERE uid = $2
addCoinEventRow(u, amount) == [u EXCEPT !.coins = @ + amount]

\* addCoinEvent: the UPDATE; then return { mode: "paid" }
addCoinEvent_update(p) ==
  /\ pc[p] = "addCoinEvent_update"
  /\ users' = UpdateUser(users, loc[p].uid, LAMBDA u : addCoinEventRow(u, loc[p].amount))
  /\ Finish(p, Returned([mode |-> "paid"]))
  /\ UNCHANGED <<reward_claims, level_rewards, user_ads, morevars, today>>

-----------------------------------------------------------------------------
(* The better-sqlite3 variant of the database layer (unnamed/part_009).  Its *)
(* functions are synchronous: each runs to its end as one step.              *)

\* UPDATE users SET coins = CASE WHEN coins + @delta < 0 THEN 0 ELSE coins + @delta END
sqlite_addCoinsRow(u, delta) == [u EXCEPT !.coins = Max(@ + delta, 0)]

\* SELECT * FROM users WHERE username = ? LIMIT 1, for a row of another uid
sqlite_usernameTaken(us, uid, username) ==
  \E other \in DOMAIN us \ {uid} : us[other].username = username

\* upsertUser({ uid, username })
sqlite_upsertUser(p, uid, username) ==
  /\ LET l == [Loc0 EXCEPT !.op = "upsertUser", !.uid = uid, !.username = username]
     IN IF sqlite_usernameTaken(users, uid, username)
          THEN /\ users' = users
               /\ CallReturn(p, l, Threw("Username already linked to another account."))
          ELSE /\ users' = upsertUserRow(users, uid, username)
               /\ CallReturn(p, l, Returned([user |-> getUserByUid(users', uid)]))
  /\ UNCHANGED <<reward_claims, level_rewards, user_ads, today, morevars>>

\* SELECT id FROM reward_claims WHERE nonce = ? LIMIT 1
sqlite_nonceExists(rc, nonce) == RowCount(rc, LAMBDA r : r.nonce = nonce) > 0

\* SELECT created_at FROM reward_claims WHERE uid = ? AND type = ? ORDER BY
\* datetime(created_at) DESC LIMIT 1: a claim of an earlier day is older than
\* any cooldown; one of today may be younger or older than it.
sqlite_mayCoolDown(rc, uid, type, day) ==
  RowCount(rc, LAMBDA r : r.uid = uid /\ r.type = type /\ r.created_at = day) > 0

\* claimReward({ uid, type, nonce, amount, cooldownSeconds }); cooling tells
\* whether (now - last) / 1000 < cooldownSeconds.
sqlite_claimReward(p, uid, type, nonce, amount, cooling) ==
  /\ LET l == [Loc0 EXCEPT !.op = "claimReward", !.uid = uid, !.type = type,
                           !.nonce = nonce, !.amount = amount]
         user == getUserByUid(users, uid)
     IN IF user = NoRow
          THEN /\ UNCHANGED <<users, reward_claims>>
               /\ CallReturn(p, l, Threw("User not found"))
          ELSE IF sqlite_nonceExists(reward_claims, nonce)
          THEN /\ UNCHANGED <<users, reward_claims>>
               /\ CallReturn(p, l, Returned([ok |-> TRUE, already |-> TRUE, user |-> user]))
          ELSE IF cooling /\ sqlite_mayCoolDown(reward_claims, uid, type, today)
          THEN /\ UNCHANGED <<users, reward_claims>>
               /\ CallReturn(p, l, Threw("Cooldown"))
          ELSE /\ reward_claims' = InsertRow(reward_claims,
                                      ClaimRow(uid, type, nonce, amount, today))
               /\ users' = [users EXCEPT ![uid] = sqlite_addCoinsRow(@, amount)]
               /\ CallReturn(p, l, Returned([ok |-> TRUE, already |-> FALSE,
                                             user |-> users'[uid]]))
  /\ UNCHANGED <<level_rewards, user_ads, today, morevars>>

-----------------------------------------------------------------------------
(* A statement that fails: pool.query rejects (a lost connection, a statement *)
(* timeout) and the exception leaves the function.  Nothing is rolled back,   *)
(* the earlier statements were committed one by one.                          *)

queryFails(p) ==
  /\ ~Idle(p)
  /\ Finish(p, Threw("query failed"))
  /\ UNCHANGED <<dbvars, today, morevars>>

-----------------------------------------------------------------------------
(* The clock *)

nextDay ==
  /\ today < MaxDay
  /\ today' = today + 1
  /\ UNCHANGED <<dbvars, morevars, pc, loc, ret, pre, nops>>

-----------------------------------------------------------------------------
(* Initial state: the tables initDB creates, all empty *)

EmptyUsers == [u \in {} |-> NoRow]
EmptyUserAds == [k \in {} |-> NoRow]

Init ==
  /\ users = EmptyUsers
  /\ reward_claims = EmptyBag
  /\ level_rewards = EmptyBag
  /\ user_ads = EmptyUserAds
  /\ monthly_payouts = EmptyBag
  /\ user_monthly_state = EmptyUserAds
  /\ coin_events = EmptyBag
  /\ today = 0
  /\ pc = [p \in Procs |-> "idle"]
  /\ loc = [p \in Procs |-> Loc0]
  /\ ret = [p \in Procs |-> Ret0]
  /\ pre = [p \in Procs |-> NoRow]
  /\ nops = 0

-----------------------------------------------------------------------------
(* Concurrent reward claims: POST /api/rewards/ad-50 requests of several     *)
(* clients, each after its account was upserted or not.                      *)

NextClaim ==
  \/ \E p \in Procs, uid \in Uids : upsertUser(p, uid, PiUsername(uid))
  \/ \E p \in Procs, uid \in Uids, nonce \in Nonces :
       claimReward_select(p, uid, "ad_50", nonce, AD_50_AMOUNT)
  \/ \E p \in Procs : claimReward_insert(p)
  \/ \E p \in Procs : claimReward_addCoins(p)
  \/ \E p \in Procs : claimReward_ads(p)
  \/ \E p \in Procs : recalc_select(p)
  \/ \E p \in Procs : recalc_update(p)
  \/ \E p \in Procs : queryFails(p)

SpecClaim == Init /\ [][NextClaim]_vars

-----------------------------------------------------------------------------
(* Daily logins: POST /api/rewards/daily-login requests over several days *)

NextDaily ==
  \/ \E p \in Procs, uid \in Uids : upsertUser(p, uid, PiUsername(uid))
  \/ \E p \in Procs, uid \in Uids : claimDailyLogin_select(p, uid)
  \/ \E p \in Procs : claimDailyLogin_insert(p)
  \/ \E p \in Procs : claimDailyLogin_addCoins(p)
  \/ \E p \in Procs : claimDailyLogin_loginDays(p)
  \/ \E p \in Procs : recalc_select(p)
  \/ \E p \in Procs : recalc_update(p)
  \/ nextDay

SpecDaily == Init /\ [][NextDaily]_vars

-----------------------------------------------------------------------------
(* Level bonuses: POST /api/rewards/level-complete requests *)

NextLevel ==
  \/ \E p \in Procs, uid \in Uids : upsertUser(p, uid, PiUsername(uid))
  \/ \E p \in Procs, uid \in Uids, level \in Levels :
       claimLevelComplete_select(p, uid, level)
  \/ \E p \in Procs : claimLevelComplete_insert(p)
  \/ \E p \in Procs : claimLevelComplete_addCoins(p)
  \/ \E p \in Procs : claimLevelComplete_levels(p)
  \/ \E p \in Procs : recalc_select(p)
  \/ \E p \in Procs : recalc_update(p)

SpecLevel == Init /\ [][NextLevel]_vars

-----------------------------------------------------------------------------
(* Balance changes: addCoins with either sign, spendCoins, and the coins mode *)
(* of the consumables                                                         *)

Deltas == {-50, 50}
Kinds == {"skip", "hint", "restart"}

\* consumeItem(uid, item, mode, nonce): the switch on the item
consumeItem(p, uid, item, mode, nonce) ==
  IF item = "restart" THEN useRestarts_select(p, uid, mode, nonce)
  ELSE IF item = "skip" THEN useSkip_select(p, uid, mode, nonce)
  ELSE useHint_select(p, uid, mode, nonce)

NextCoins ==
  \/ \E p \in Procs, uid \in Uids : upsertUser(p, uid, PiUsername(uid))
  \/ \E p \in Procs, uid \in Uids, d \in Deltas : addCoins_call(p, uid, d)
  \/ \E p \in Procs, uid \in Uids : spendCoins_call(p, uid, SKIP_COST_COINS)
  \/ \E p \in Procs, uid \in Uids, item \in Kinds : consumeItem(p, uid, item, "coins", NULL)
  \/ \E p \in Procs : useRestarts_spend(p)
  \/ \E p \in Procs : useRestarts_coinInsert(p)
  \/ \E p \in Procs : useSkip_spend(p)
  \/ \E p \in Procs : useSkip_coinInsert(p)
  \/ \E p \in Procs : useSkip_monthly(p)
  \/ \E p \in Procs : useHint_spend(p)
  \/ \E p \in Procs : useHint_coinInsert(p)
  \/ \E p \in Procs : recalc_select(p)
  \/ \E p \in Procs : recalc_update(p)

SpecCoins == Init /\ [][NextCoins]_vars

-----------------------------------------------------------------------------
(* Free uses of the consumables: POST /api/consume requests with mode free, *)
(* of accounts that exist                                                    *)

InitAccounts ==
  /\ users = [u \in Uids |-> NewUser(PiUsername(u))]
  /\ reward_claims = EmptyBag
  /\ level_rewards = EmptyBag
  /\ user_ads = EmptyUserAds
  /\ monthly_payouts = EmptyBag
  /\ user_monthly_state = EmptyUserAds
  /\ coin_events = EmptyBag
  /\ today = 0
  /\ pc = [p \in Procs |-> "idle"]
  /\ loc = [p \in Procs |-> Loc0]
  /\ ret = [p \in Procs |-> Ret0]
  /\ pre = [p \in Procs |-> NoRow]
  /\ nops = 0

NextConsume ==
  \/ \E p \in Procs, uid \in Uids, item \in Kinds : consumeItem(p, uid, item, "free", NULL)
  \/ \E p \in Procs : useRestarts_free(p)
  \/ \E p \in Procs : useSkip_free(p)
  \/ \E p \in Procs : useSkip_monthly(p)
  \/ \E p \in Procs : useHint_free(p)
  \/ \E p \in Procs : recalc_select(p)
  \/ \E p \in Procs : recalc_update(p)

SpecConsume == InitAccounts /\ [][NextConsume]_vars

-----------------------------------------------------------------------------
(* Credits and spends of accounts: addCoins with a positive delta and       *)
(* spendCoins with any amount                                                *)

SpendAmounts == {-50, 0, 50, 100}

NextSpend ==
  \/ \E p \in Procs, uid \in Uids : upsertUser(p, uid, PiUsername(uid))
  \/ \E p \in Procs, uid \in Uids : addCoins_call(p, uid, AD_50_AMOUNT)
  \/ \E p \in Procs, uid \in Uids, a \in SpendAmounts : spendCoins_call(p, uid, a)

SpecSpend == Init /\ [][NextSpend]_vars

-----------------------------------------------------------------------------
(* Ad-paid uses of the consumables: consumeItem with mode ad, with and      *)
(* without a nonce                                                           *)

NextAd ==
  \/ \E p \in Procs, uid \in Uids : upsertUser(p, uid, PiUsername(uid))
  \/ \E p \in Procs, uid \in Uids, item \in Kinds, n \in Nonces \cup {NULL} :
       consumeItem(p, uid, item, "ad", n)
  \/ \E p \in Procs : useSkip_adSelect(p)
  \/ \E p \in Procs : useSkip_adInsert(p)
  \/ \E p \in Procs : useSkip_adMonthly(p)
  \/ \E p \in Procs : useHint_adSelect(p)
  \/ \E p \in Procs : useHint_adInsert(p)
  \/ \E p \in Procs : trackAdView_insert(p)
  \/ \E p \in Procs : trackAdView_update(p)
  \/ \E p \in Procs : recalc_select(p)
  \/ \E p \in Procs : recalc_update(p)

SpecAd == Init /\ [][NextAd]_vars

-----------------------------------------------------------------------------
(* Skips and hints of the coin_events variant, of accounts that exist        *)

NextMonthlyState ==
  \/ \E p \in Procs, uid \in Uids : useSkip_getMonthlyState(p, uid)
  \/ \E p \in Procs, uid \in Uids : useHint_getMonthlyState(p, uid)
  \/ \E p \in Procs : freeLeft_update(p)
  \/ \E p \in Procs : addCoinEvent_insert(p)
  \/ \E p \in Procs : addCoinEvent_update(p)

SpecMonthlyState == InitAccounts /\ [][NextMonthlyState]_vars

-----------------------------------------------------------------------------
(* One client watching ads for coins, one after the other; the month turns   *)
(* during one of the first calls or between them                             *)

MaxCoinAds == 51      \* coin-ad calls begun in one behaviour
TurnOps == 3          \* the clock advances while at most this many calls have begun

NextCoinAd ==
  \/ upsertUser(1, "u1", PiUsername("u1"))
  \/ claimCoinAd(1, "u1", MaxCoinAds)
  \/ trackAdView_update(1)
  \/ claimCoinAd_getMonthlyAds(1)
  \/ claimCoinAd_claimReward(1)
  \/ claimReward_insert(1)
  \/ claimReward_addCoins(1)
  \/ claimReward_ads(1)
  \/ recalc_select(1)
  \/ recalc_update(1)
  \/ (nops <= TurnOps /\ nextDay)

SpecCoinAd == Init /\ [][NextCoinAd]_vars

-----------------------------------------------------------------------------
(* POST /api/rewards/ad-50 requests of one account, over the turn of a month *)

NextAd50 ==
  \/ \E p \in Procs, nonce \in Nonces : ad50_upsertUser(p, "u1", nonce)
  \/ \E p \in Procs : ensureMonthlyKey_select(p)
  \/ \E p \in Procs : ensureMonthlyKey_update(p)
  \/ \E p \in Procs : claimCoinAd_claimReward(p)
  \/ \E p \in Procs : claimReward_insert(p)
  \/ \E p \in Procs : claimReward_addCoins(p)
  \/ \E p \in Procs : claimReward_ads(p)
  \/ \E p \in Procs : recalc_select(p)
  \/ \E p \in Procs : recalc_update(p)
  \/ nextDay

SpecAd50 == Init /\ [][NextAd50]_vars

-----------------------------------------------------------------------------
(* POST /admin/month-close beside credits of the accounts *)

Months == 0 .. (MaxDay \div DaysPerMonth)

NextMonthClose ==
  \/ \E p \in Procs, uid \in Uids : upsertUser(p, uid, PiUsername(uid))
  \/ \E p \in Procs, uid \in Uids : addCoins_call(p, uid, AD_50_AMOUNT)
  \/ \E p \in Procs, month \in Months : closeMonthAndResetCoins(p, month)
  \/ \E p \in Procs : closeMonth_select(p)
  \/ \E p \in Procs : closeMonth_insert(p)
  \/ \E p \in Procs : closeMonth_update(p)
  \/ \E p \in Procs : closeMonth_commit(p)
  \/ \E p \in Procs : closeMonth_rollback(p)

SpecMonthClose == Init /\ [][NextMonthClose]_vars

-----------------------------------------------------------------------------
(* Monthly payouts: POST /api/monthly/claim and POST /admin/month-close      *)
(* beside credits, with statements of the transactions failing; account u1   *)
(* exists, u2 does not                                                       *)

InitPayout ==
  /\ users = [u \in {"u1"} |-> NewUser(PiUsername(u))]
  /\ reward_claims = EmptyBag
  /\ level_rewards = EmptyBag
  /\ user_ads = EmptyUserAds
  /\ monthly_payouts = EmptyBag
  /\ user_monthly_state = EmptyUserAds
  /\ coin_events = EmptyBag
  /\ today = 0
  /\ pc = [p \in Procs |-> "idle"]
  /\ loc = [p \in Procs |-> Loc0]
  /\ ret = [p \in Procs |-> Ret0]
  /\ pre = [p \in Procs |-> NoRow]
  /\ nops = 0

PayoutMonths == {prevMonthKey, currentMonthKey}

NextPayout ==
  \/ \E p \in Procs, uid \in Uids :
       ~RowLocked(p, uid) /\ addCoins_call(p, uid, AD_50_AMOUNT)
  \/ \E p \in Procs, uid \in Uids, month \in PayoutMonths :
       claimMonthlyRewards(p, uid, month)
  \/ \E p \in Procs : claimMonthly_select(p)
  \/ \E p \in Procs : claimMonthly_insert(p)
  \/ \E p \in Procs : claimMonthly_update(p)
  \/ \E p \in Procs : claimMonthly_commit(p)
  \/ \E p \in Procs : claimMonthly_rollback(p)
  \/ \E p \in Procs, month \in PayoutMonths : closeMonthAndResetCoins(p, month)
  \/ \E p \in Procs : closeMonth_select(p)
  \/ \E p \in Procs : closeMonth_insert(p)
  \/ \E p \in Procs : closeMonth_update(p)
  \/ \E p \in Procs : closeMonth_commit(p)
  \/ \E p \in Procs : closeMonth_rollback(p)
  \/ \E p \in Procs : txFails(p)

SpecPayout == InitPayout /\ [][NextPayout]_vars

-----------------------------------------------------------------------------
(* ensureMonthlyKey calls of one account beside its credits and free skips,  *)
(* over the turn of a month                                                  *)

NextMonthlyKey ==
  \/ \E p \in Procs : ensureMonthlyKey(p, "u1")
  \/ \E p \in Procs : ensureMonthlyKey_select(p)
  \/ \E p \in Procs : ensureMonthlyKey_update(p)
  \/ \E p \in Procs : addCoins_call(p, "u1", AD_50_AMOUNT)
  \/ \E p \in Procs : consumeItem(p, "u1", "skip", "free", NULL)
  \/ \E p \in Procs : useSkip_free(p)
  \/ \E p \in Procs : useSkip_monthly(p)
  \/ \E p \in Procs : recalc_select(p)
  \/ \E p \in Procs : recalc_update(p)
  \/ nextDay

SpecMonthlyKey == InitAccounts /\ [][NextMonthlyKey]_vars

-----------------------------------------------------------------------------
(* upsertUser calls with the usernames the identity platform may report *)

Usernames == {"alice", "bob"}

NextUpsert ==
  \/ \E p \in Procs, uid \in Uids, username \in Usernames : upsertUser(p, uid, username)
  \/ \E p \in Procs, uid \in Uids : addCoins_call(p, uid, AD_50_AMOUNT)

SpecUpsert == Init /\ [][NextUpsert]_vars

-----------------------------------------------------------------------------
(* Signed-in requests of the accounts, each under the username the identity *)
(* platform reports for it, and their PATCH /api/user/username requests      *)

NewUsernames == {"alice", "carol", "x"}

NextUsername ==
  \/ \E p \in Procs, uid \in Uids : upsertUser(p, uid, PiUsername(uid))
  \/ \E p \in Procs, uid \in Uids, username \in NewUsernames :
       patchUsername(p, uid, username)
  \/ \E p \in Procs : ensureMonthlyKey_select(p)
  \/ \E p \in Procs : ensureMonthlyKey_update(p)
  \/ \E p \in Procs : patchUsername_update(p)

SpecUsername == Init /\ [][NextUsername]_vars

\* The same requests, answered by the second handler.
NextUsernameChecked ==
  \/ \E p \in Procs, uid \in Uids : upsertUser(p, uid, PiUsername(uid))
  \/ \E p \in Procs, uid \in Uids, username \in NewUsernames :
       patchUsernameChecked(p, uid, username)
  \/ \E p \in Procs : ensureMonthlyKey_select(p)
  \/ \E p \in Procs : ensureMonthlyKey_update(p)
  \/ \E p \in Procs : patchUsernameChecked_select(p)
  \/ \E p \in Procs : patchUsernameChecked_update(p)

SpecUsernameChecked == Init /\ [][NextUsernameChecked]_vars

-----------------------------------------------------------------------------
(* The better-sqlite3 variant: sign-ins and ad rewards of two accounts *)

NextSqlite ==
  \/ \E p \in Procs, uid \in Uids, username \in Usernames :
       sqlite_upsertUser(p, uid, username)
  \/ \E p \in Procs, uid \in Uids, nonce \in Nonces, cooling \in BOOLEAN :
       sqlite_claimReward(p, uid, "ad_50", nonce, AD_50_AMOUNT, cooling)
  \/ nextDay

SpecSqlite == Init /\ [][NextSqlite]_vars

-----------------------------------------------------------------------------
(* calcMonthlyRate over the monthly counters of one account: the account     *)
(* starts with counters on both sides of every tier, and its rate is         *)
(* recalculated                                                              *)

LoginDays == {0, 6, 7, 15, 20}
LevelsCompleted == {0, 20, 60, 119, 120}
ValidInvites == {0, 3, 6, 10}
SkipsUsed == {0, 2, 3}
HintsUsed == {0, 3}
RestartsUsed == {0, 1}
AdsWatched == {0, 5, 14, 15}
WinStreaks == {0, 3, 7}
Balances == {0, AD_50_AMOUNT}

\* The values each monthly counter is drawn from.
CounterValues ==
  [ monthly_login_days |-> LoginDays,
    monthly_levels_completed |-> LevelsCompleted,
    monthly_valid_invites |-> ValidInvites,
    monthly_skips_used |-> SkipsUsed,
    monthly_hints_used |-> HintsUsed,
    monthly_restarts_used |-> RestartsUsed,
    monthly_ads_watched |-> AdsWatched,
    monthly_max_win_streak |-> WinStreaks ]

MonthlyCounters == DOMAIN CounterValues

\* Row u with the monthly counters c and the balance coins.
WithCounters(u, c, coins) ==
  [u EXCEPT !.monthly_login_days = c.monthly_login_days,
            !.monthly_levels_completed = c.monthly_levels_completed,
            !.monthly_valid_invites = c.monthly_valid_invites,
            !.monthly_skips_used = c.monthly_skips_used,
            !.monthly_hints_used = c.monthly_hints_used,
            !.monthly_restarts_used = c.monthly_restarts_used,
            !.monthly_ads_watched = c.monthly_ads_watched,
            !.monthly_max_win_streak = c.monthly_max_win_streak,
            !.coins = coins,
            !.lifetime_coins_earned = coins]

InitRate ==
  /\ \E days \in LoginDays, lv \in LevelsCompleted, inv \in ValidInvites,
        skips \in SkipsUsed, hints \in HintsUsed, restarts \in RestartsUsed,
        ads \in AdsWatched, streak \in WinStreaks, coins \in Balances :
       users = [u \in {"u1"} |->
                  WithCounters(NewUser(PiUsername(u)),
                               [ monthly_login_days |-> days,
                                 monthly_levels_completed |-> lv,
                                 monthly_valid_invites |-> inv,
                                 monthly_skips_used |-> skips,
                                 monthly_hints_used |-> hints,
                                 monthly_restarts_used |-> restarts,
                                 monthly_ads_watched |-> ads,
                                 monthly_max_win_streak |-> streak ],
                               coins)]
  /\ reward_claims = EmptyBag
  /\ level_rewards = EmptyBag
  /\ user_ads = EmptyUserAds
  /\ monthly_payouts = EmptyBag
  /\ user_monthly_state = EmptyUserAds
  /\ coin_events = EmptyBag
  /\ today = 0
  /\ pc = [p \in Procs |-> "idle"]
  /\ loc = [p \in Procs |-> Loc0]
  /\ ret = [p \in Procs |-> Ret0]
  /\ pre = [p \in Procs |-> NoRow]
  /\ nops = 0

NextRate ==
  \/ recalcAndStoreMonthlyRate(1, "u1")
  \/ recalc_select(1)
  \/ recalc_update(1)

SpecRate == InitRate /\ [][NextRate]_vars

-----------------------------------------------------------------------------
(* adminDeleteUser: DELETE /admin/users/:uid beside the claims of accounts   *)

\* DELETE FROM users WHERE uid = $1
deleteUserRow(us, uid) == [u \in DOMAIN us \ {uid} |-> us[u]]

\* DELETE FROM users WHERE uid = $1: the first statement of adminDeleteUser
adminDeleteUser(p, uid) ==
  /\ users' = deleteUserRow(users, uid)
  /\ Call(p, [Loc0 EXCEPT !.op = "adminDeleteUser", !.uid = uid],
          "adminDeleteUser_progress")
  /\ UNCHANGED <<reward_claims, level_rewards, user_ads, today, morevars>>

\* DELETE FROM progress WHERE uid = $1: the progress table holds the saved
\* game of an account and is read by no reward or consume operation.
adminDeleteUser_progress(p) ==
  /\ pc[p] = "adminDeleteUser_progress"
  /\ Goto(p, loc[p], "adminDeleteUser_sessions")
  /\ UNCHANGED <<dbvars, today, morevars>>

\* DELETE FROM sessions WHERE uid = $1; return { ok: true }
adminDeleteUser_sessions(p) ==
  /\ pc[p] = "adminDeleteUser_sessions"
  /\ Finish(p, Returned([ok |-> TRUE]))
  /\ UNCHANGED <<dbvars, today, morevars>>

NextAdminDelete ==
  \/ \E p \in Procs, uid \in Uids : upsertUser(p, uid, PiUsername(uid))
  \/ \E p \in Procs, uid \in Uids, nonce \in Nonces :
       claimReward_select(p, uid, "ad_50", nonce, AD_50_AMOUNT)
  \/ \E p \in Procs : claimReward_insert(p)
  \/ \E p \in Procs : claimReward_addCoins(p)
  \/ \E p \in Procs : claimReward_ads(p)
  \/ \E p \in Procs : recalc_select(p)
  \/ \E p \in Procs : recalc_update(p)
  \/ \E p \in Procs, uid \in Uids : adminDeleteUser(p, uid)
  \/ \E p \in Procs : adminDeleteUser_progress(p)
  \/ \E p \in Procs : adminDeleteUser_sessions(p)

SpecAdminDelete == InitAccounts /\ [][NextAdminDelete]_vars

-----------------------------------------------------------------------------
(* requirePiUser and verifyPiAccessToken: the identity check of a request    *)
(* against the platform, which may answer, refuse or stay silent             *)

Tokens == {"", "t1", "t2", "stale"}

\* The account the platform answers GET /v2/me with for an access token; NULL
\* for a token it does not know.
piMe(token) ==
  IF token = "t1" THEN "u1" ELSE IF token = "t2" THEN "u2" ELSE NULL

\* A timer that is cleared once the response headers have arrived.
timerArmed_fetchOnly(step) == step = "verify_fetch"

\* setTimeout(() => controller.abort(), 3000) before the try, clearTimeout in
\* its finally: the timer is armed while fetch and r.text() are awaited.
timerArmed(step) == step \in {"verify_fetch", "verify_text"}

InVerify(p) == pc[p] \in {"verify_fetch", "verify_text"}

\* const token = getBearerToken(req); if (!token) throw new Error("Missing token");
\* verifyPiAccessToken(token) begins its fetch
requirePiUser(p, token) ==
  /\ IF token = ""
       THEN CallReturn(p, [Loc0 EXCEPT !.op = "requirePiUser", !.token = token],
                       Threw("Missing token"))
       ELSE Call(p, [Loc0 EXCEPT !.op = "requirePiUser", !.token = token],
                 "verify_fetch")
  /\ UNCHANGED <<dbvars, today, morevars>>

\* const r = await fetch(...): the platform answers with a status; it answers
\* 200 only for a token it knows.
verify_fetch(p, ok) ==
  /\ pc[p] = "verify_fetch"
  /\ ok => piMe(loc[p].token) # NULL
  /\ Goto(p, [loc[p] EXCEPT !.res = [ok |-> ok]], "verify_text")
  /\ UNCHANGED <<dbvars, today, morevars>>

\* const text = await r.text(); if (!r.ok) throw new Error("Invalid Pi access
\* token"); return JSON.parse(text); back in requirePiUser uid and username
\* are taken from the answer.
verify_text(p) ==
  /\ pc[p] = "verify_text"
  /\ IF ~loc[p].res.ok
       THEN Finish(p, Threw("Invalid Pi access token"))
       ELSE LET uid == piMe(loc[p].token)
            IN Goto(p, [loc[p] EXCEPT !.uid = uid, !.username = PiUsername(uid),
                                      !.res = NoRow],
                    "requirePiUser_upsertUser")
  /\ UNCHANGED <<dbvars, today, morevars>>

\* The timer fires: controller.abort() rejects the pending await, the catch
\* rethrows the error.
verify_abort(p) ==
  /\ timerArmed(pc[p])
  /\ Finish(p, Threw("This operation was aborted"))
  /\ UNCHANGED <<dbvars, today, morevars>>

\* await upsertUser({ uid, username }); ensureMonthlyKey(uid) follows
requirePiUser_upsertUser(p) ==
  /\ pc[p] = "requirePiUser_upsertUser"
  /\ users' = upsertUserRow(users, loc[p].uid, loc[p].username)
  /\ Goto(p, loc[p], "ensureMonthlyKey_select")
  /\ UNCHANGED <<reward_claims, level_rewards, user_ads, today, morevars>>

\* await touchUserOnline(uid), which writes the sessions table only;
\* return { uid, username }
requirePiUser_touch(p) ==
  /\ pc[p] = "requirePiUser_touch"
  /\ Finish(p, Returned([uid |-> loc[p].uid, username |-> loc[p].username]))
  /\ UNCHANGED <<dbvars, today, morevars>>

NextVerify ==
  \/ \E p \in Procs, token \in Tokens : requirePiUser(p, token)
  \/ \E p \in Procs, ok \in BOOLEAN : verify_fetch(p, ok)
  \/ \E p \in Procs : verify_text(p)
  \/ \E p \in Procs : verify_abort(p)
  \/ \E p \in Procs : requirePiUser_upsertUser(p)
  \/ \E p \in Procs : ensureMonthlyKey_select(p)
  \/ \E p \in Procs : ensureMonthlyKey_update(p)
  \/ \E p \in Procs : requirePiUser_touch(p)

\* Node runs the callback of an armed timer once its delay has passed.
SpecVerify ==
  /\ Init
  /\ [][NextVerify]_vars
  /\ \A p \in Procs : WF_vars(verify_abort(p))

-----------------------------------------------------------------------------
(* POST /api/rewards/ad-50 requests of one account, the month turning        *)
(* between requests                                                          *)

\* A day passes while no request is in flight.
nextDayBetweenRequests == Quiescent /\ nextDay

NextAd50Months ==
  \/ \E p \in Procs, nonce \in Nonces : ad50_upsertUser(p, "u1", nonce)
  \/ \E p \in Procs : ensureMonthlyKey_select(p)
  \/ \E p \in Procs : ensureMonthlyKey_update(p)
  \/ \E p \in Procs : claimCoinAd_claimReward(p)
  \/ \E p \in Procs : claimReward_insert(p)
  \/ \E p \in Procs : claimReward_addCoins(p)
  \/ \E p \in Procs : claimReward_ads(p)
  \/ \E p \in Procs : recalc_select(p)
  \/ \E p \in Procs : recalc_update(p)
  \/ nextDayBetweenRequests

SpecAd50Months == Init /\ [][NextAd50Months]_vars

-----------------------------------------------------------------------------
(* POST /api/skip, /api/hint and /api/restart: the free-then-paid routes of  *)
(* index.ts, which read the paid balance from users and the free uses from   *)
(* progress                                                                  *)

\* The column of users each route reads the paid balance from.
BalanceColumn(item) ==
  IF item = "skip" THEN "skips_balance"
  ELSE IF item = "hint" THEN "hints_balance" ELSE "restarts_balance"

\* The column of users that counts the free uses of an item.
FreeUsedColumn(item) ==
  IF item = "skip" THEN "free_skips_used"
  ELSE IF item = "hint" THEN "free_hints_used" ELSE "free_restarts_used"

\* const { uid } = await requirePiUser(req): its upsertUser
apiFreeThenPaid(p, uid, item) ==
  /\ users' = upsertUserRow(users, uid, PiUsername(uid))
  /\ Call(p, [Loc0 EXCEPT !.op = "apiFreeThenPaid", !.uid = uid, !.type = item],
          "ensureMonthlyKey_select")
  /\ UNCHANGED <<reward_claims, level_rewards, user_ads, today, morevars>>

\* await pool.query("BEGIN")
apiFreeThenPaid_begin(p) ==
  /\ pc[p] = "apiFreeThenPaid_begin"
  /\ Goto(p, loc[p], "apiFreeThenPaid_selectUser")
  /\ UNCHANGED <<dbvars, today, morevars>>

\* SELECT <item>s_balance FROM public.users WHERE uid=$1 FOR UPDATE: a
\* statement that names a column the table does not have is an error, and the
\* catch block goes on to ROLLBACK.  The statements after it are never reached.
apiFreeThenPaid_selectUser(p) ==
  /\ pc[p] = "apiFreeThenPaid_selectUser"
  /\ IF BalanceColumn(loc[p].type) \in UsersColumns
       THEN Goto(p, loc[p], "apiFreeThenPaid_selectProgress")
       ELSE Goto(p, [loc[p] EXCEPT !.res = Threw("column does not exist")],
                 "apiFreeThenPaid_rollback")
  /\ UNCHANGED <<dbvars, today, morevars>>

\* catch: await pool.query("ROLLBACK"); res.status(400).json({ ok: false, error })
apiFreeThenPaid_rollback(p) ==
  /\ pc[p] = "apiFreeThenPaid_rollback"
  /\ Finish(p, loc[p].res)
  /\ UNCHANGED <<dbvars, today, morevars>>

NextApiFreeThenPaid ==
  \/ \E p \in Procs, uid \in Uids, item \in Kinds : apiFreeThenPaid(p, uid, item)
  \/ \E p \in Procs : ensureMonthlyKey_select(p)
  \/ \E p \in Procs : ensureMonthlyKey_update(p)
  \/ \E p \in Procs : apiFreeThenPaid_begin(p)
  \/ \E p \in Procs : apiFreeThenPaid_selectUser(p)
  \/ \E p \in Procs : apiFreeThenPaid_rollback(p)

SpecApiFreeThenPaid == InitAccounts /\ [][NextApiFreeThenPaid]_vars

-----------------------------------------------------------------------------
(* POST /ads/claim of src/index.js: the points server, which keeps its users *)
(* in memory.  In this specification the variable users is that object:      *)
(* username -> { pointsThisWeek, pointsToday, lastDay }.  A handler runs      *)
(* without interruption up to its await, where the handlers of other         *)
(* requests may run before it resumes.                                       *)

DAILY_CAP == 30
MaxClaims == 32       \* /ads/claim requests begun in one behaviour

AdIds == {"", "short", "ad-0001"}
ClaimUsernames == {"", "alice"}

\* return typeof adId === "string" && adId.length > 5
verifyAdIdWithPi(adId) == Len(adId) > 5

\* users[username] ||= { pointsThisWeek: 0, pointsToday: 0, lastDay: day }
ensurePoints(us, username, day) ==
  IF username \in DOMAIN us
    THEN us
    ELSE [u \in DOMAIN us \cup {username} |->
            IF u = username
              THEN [pointsThisWeek |-> 0, pointsToday |-> 0, lastDay |-> day]
              ELSE us[u]]

\* if (users[username].lastDay !== day) { lastDay = day; pointsToday = 0 }
resetDay(us, username, day) ==
  IF us[username].lastDay # day
    THEN [us EXCEPT ![username].lastDay = day, ![username].pointsToday = 0]
    ELSE us

\* if (users[username].pointsToday >= 30)
capped(u) == u.pointsToday >= DAILY_CAP

\* The handler up to const valid = await verifyAdIdWithPi(adId)
adsClaim(p, username, adId) ==
  /\ LET l == [Loc0 EXCEPT !.op = "adsClaim", !.username = username, !.nonce = adId]
         us == resetDay(ensurePoints(users, username, today), username, today)
     IN IF username = "" \/ adId = ""
          THEN /\ users' = users
               /\ CallWithin(p, Loc0, "done", MaxClaims)
               /\ ret' = [Begun(ret, p, Ret0, Ret0) EXCEPT
                            ![p] = Returned([ok |-> FALSE, error |-> "Missing username/adId"])
                                     @@ [call |-> CallOf(l)]]
          ELSE /\ users' = us
               /\ IF capped(us[username])
                    THEN /\ CallWithin(p, Loc0, "done", MaxClaims)
                         /\ ret' = [Begun(ret, p, Ret0, Ret0) EXCEPT
                                      ![p] = Returned([ok |-> FALSE, capped |-> TRUE,
                                                       pointsToday |-> us[username].pointsToday,
                                                       pointsThisWeek |-> us[username].pointsThisWeek])
                                               @@ [call |-> CallOf(l)]]
                    ELSE CallWithin(p, [l EXCEPT !.res = [valid |-> verifyAdIdWithPi(adId)]],
                                    "adsClaim_resume", MaxClaims)
  /\ UNCHANGED <<reward_claims, level_rewards, user_ads, today, morevars>>

\* if (!valid) return 401; pointsToday += 1; pointsThisWeek += 1; return the counts
adsClaim_resume(p) ==
  /\ pc[p] = "adsClaim_resume"
  /\ LET username == loc[p].username
     IN IF ~loc[p].res.valid
          THEN /\ users' = users
               /\ Finish(p, Returned([ok |-> FALSE, error |-> "Invalid adId"]))
          ELSE /\ users' = [users EXCEPT ![username].pointsToday = @ + 1,
                                         ![username].pointsThisWeek = @ + 1]
               /\ Finish(p, Returned([ok |-> TRUE,
                                      pointsToday |-> users'[username].pointsToday,
                                      pointsThisWeek |-> users'[username].pointsThisWeek]))
  /\ UNCHANGED <<reward_claims, level_rewards, user_ads, today, morevars>>

NextAdsClaim ==
  \/ \E p \in Procs, username \in ClaimUsernames, adId \in AdIds :
       adsClaim(p, username, adId)
  \/ \E p \in Procs : adsClaim_resume(p)
  \/ nextDay

SpecAdsClaim == Init /\ [][NextAdsClaim]_vars

-----------------------------------------------------------------------------
(* Properties *)

Days == 0..MaxDay

\* Sum of the amounts of the reward_claims rows of an account.
LedgerSum(rc, uid) ==
  LET rows == {r \in BagToSet(rc) : r.uid = uid}
      RECURSIVE Sum(_)
      Sum(S) == IF S = {} THEN 0
                ELSE LET r == CHOOSE x \in S : TRUE
                     IN CopiesIn(r, rc) * r.amount + Sum(S \ {r})
  IN Sum(rows)

\* Number of reward_claims rows with a uid and a nonce.
NonceRows(rc, uid, nonce) == RowCount(rc, LAMBDA r : r.uid = uid /\ r.nonce = nonce)

\* Number of daily_login rows of an account dated a day.
DailyRows(rc, uid, day) ==
  RowCount(rc, LAMBDA r : r.uid = uid /\ r.type = "daily_login" /\ r.created_at = day)

\* Number of level_rewards markers of an account for a level.
LevelMarkers(lr, uid, level) == RowCount(lr, LAMBDA r : r.uid = uid /\ r.level = level)

\* Request p has finished a call of op that ran alone from its first statement
\* to its return (a sequential call).
DoneAlone(p, op) ==
  /\ pc[p] = "done"
  /\ pre[p] # NoRow
  /\ ret[p].call.op = op

\* No request's last call threw.
NoneThrew == \A p \in Procs : ret[p].status # "error"

\* The call returned the duplicate result { already: true }.
IsAlready(r) == r.status = "ok" /\ r.value = [already |-> TRUE]
\* The call returned { user } with the account row, which the routes report
\* as already = false.
IsApplied(r) ==
  /\ r.status = "ok"
  /\ DOMAIN r.value = {"user"}
  /\ r.value.user # NoRow

\* C1: when claimReward calls with the same (uid, nonce) run concurrently,
\* there is never more than one reward_claims row for the (uid, nonce), and
\* once the calls have returned the balance was credited with the amount once
\* (so the balance is at most the amount times the number of nonces the
\* account has claimed).
C1_ClaimedOnce ==
  \A uid \in DOMAIN users :
    /\ \A nonce \in Nonces : NonceRows(reward_claims, uid, nonce) <= 1
    /\ (Quiescent /\ NoneThrew) =>
         users[uid].coins <=
           AD_50_AMOUNT *
             Cardinality({n \in Nonces : NonceRows(reward_claims, uid, n) > 0})

\* The accounts of a table state that have a row with the nonce whose amount
\* is in their balance.
AppliedTo(s, nonce) ==
  {uid \in DOMAIN s.users :
     /\ NonceRows(s.reward_claims, uid, nonce) > 0
     /\ s.users[uid].coins >= AD_50_AMOUNT}

\* C3: once a claimReward with a nonce has been applied, a later sequential
\* claimReward with the same nonce (for any account that exists) that returns
\* a result returns the duplicate result, and it leaves every table as it was.
C3_DuplicateNonceIsNoOp ==
  \A p \in Procs :
    ( /\ DoneAlone(p, "claimReward")
      /\ ret[p].status = "ok"
      /\ ret[p].call.uid \in DOMAIN pre[p].users
      /\ AppliedTo(pre[p], ret[p].call.nonce) # {} )
    => IsAlready(ret[p]) /\ SameTables(pre[p])

\* A claimReward call that runs sequentially and finds a row with its own
\* (uid, nonce) returns the duplicate result and leaves every table as it was.
SameUidDuplicateIsNoOp ==
  \A p \in Procs :
    ( /\ DoneAlone(p, "claimReward")
      /\ NonceRows(pre[p].reward_claims, ret[p].call.uid, ret[p].call.nonce) > 0 )
    => IsAlready(ret[p]) /\ SameTables(pre[p])

\* A sequential duplicate of a claim that was applied in full.
SameUidDuplicate_Witness ==
  \E p \in Procs :
    /\ DoneAlone(p, "claimReward")
    /\ NonceRows(pre[p].reward_claims, ret[p].call.uid, ret[p].call.nonce) = 1
    /\ ret[p].call.uid \in DOMAIN users
    /\ users[ret[p].call.uid].coins = AD_50_AMOUNT
    /\ users[ret[p].call.uid].monthly_ads_watched = 1
    /\ IsAlready(ret[p])

\* C4: the ledger row and the balance change of claimReward are one atomic
\* step: whenever no call is running, the balance of every account equals the
\* sum of the amounts of its rows, and a uid without an account has no rows.
C4_RowAndBalanceTogether ==
  Quiescent =>
    \A uid \in Uids :
      LedgerSum(reward_claims, uid) =
        (IF uid \in DOMAIN users THEN users[uid].coins ELSE 0)

\* C5: when claimDailyLogin calls of one account run concurrently on one day,
\* there is never more than one daily_login row of the account for that day,
\* and once the calls have returned the bonus was credited once and
\* monthly_login_days grew by one (so both are bounded by the number of days
\* the account has a row for).
C5_DailyOnce ==
  \A uid \in DOMAIN users :
    LET claimedDays == Cardinality({d \in Days : DailyRows(reward_claims, uid, d) > 0})
    IN /\ \A d \in Days : DailyRows(reward_claims, uid, d) <= 1
       /\ (Quiescent /\ NoneThrew) =>
            /\ users[uid].coins <= DAILY_LOGIN_AMOUNT * claimedDays
            /\ users[uid].monthly_login_days <= claimedDays

\* C6: a sequential claimDailyLogin of an account returns already = false and
\* raises the balance by 5 when the account has no daily_login row dated the
\* current day (whatever rows of earlier days it has), and returns
\* already = true and changes nothing when it has one.
C6_DailyLoginSequential ==
  \A p \in Procs :
    ( DoneAlone(p, "claimDailyLogin") /\ ret[p].call.uid \in DOMAIN pre[p].users )
    => LET uid == ret[p].call.uid
           had == DailyRows(pre[p].reward_claims, uid, pre[p].today) > 0
       IN IF had
            THEN IsAlready(ret[p]) /\ SameTables(pre[p])
            ELSE /\ IsApplied(ret[p])
                 /\ uid \in DOMAIN users
                 /\ users[uid].coins = pre[p].users[uid].coins + DAILY_LOGIN_AMOUNT

\* C6 witness: the first claim of a later day is paid although the account
\* claimed on an earlier day.
C6_Witness ==
  \E p \in Procs :
    /\ DoneAlone(p, "claimDailyLogin")
    /\ ret[p].call.uid \in DOMAIN pre[p].users
    /\ pre[p].today > 0
    /\ DailyRows(pre[p].reward_claims, ret[p].call.uid, pre[p].today - 1) > 0
    /\ DailyRows(pre[p].reward_claims, ret[p].call.uid, pre[p].today) = 0
    /\ IsApplied(ret[p])
    /\ users[ret[p].call.uid].coins = 2 * DAILY_LOGIN_AMOUNT

\* C7: there is at most one level_rewards marker per (uid, level), and
\* concurrent claimLevelComplete calls of one (uid, level) credit the bonus and
\* count the level once (so, once they have returned, the balance and both
\* counters are bounded by the number of levels the account has a marker for).
C7_LevelMarkerOnce ==
  /\ \A uid \in DOMAIN users, level \in Levels :
       LevelMarkers(level_rewards, uid, level) <= 1
  /\ (Quiescent /\ NoneThrew) =>
       \A uid \in DOMAIN users :
         LET marked == Cardinality({l \in Levels : LevelMarkers(level_rewards, uid, l) > 0})
         IN /\ users[uid].coins <= LEVEL_COMPLETE_AMOUNT * marked
            /\ users[uid].monthly_levels_completed <= marked
            /\ users[uid].lifetime_levels_completed <= marked

\* C8: a sequential claimLevelComplete(uid, L) of an account pays the bonus
\* when the account has no marker for L (whatever other levels or accounts are
\* marked), and returns already = true and changes nothing when it has one.
C8_LevelBonusSequential ==
  \A p \in Procs :
    ( DoneAlone(p, "claimLevelComplete") /\ ret[p].call.uid \in DOMAIN pre[p].users )
    => LET uid == ret[p].call.uid
           had == LevelMarkers(pre[p].level_rewards, uid, ret[p].call.level) > 0
       IN IF had
            THEN IsAlready(ret[p]) /\ SameTables(pre[p])
            ELSE /\ IsApplied(ret[p])
                 /\ uid \in DOMAIN users
                 /\ users[uid].coins = pre[p].users[uid].coins + LEVEL_COMPLETE_AMOUNT

\* C8 witness: a second level of an account is paid after its first one, and
\* a repeat of a paid level is refused.
C8_Witness ==
  \E p \in Procs :
    /\ DoneAlone(p, "claimLevelComplete")
    /\ ret[p].call.uid \in DOMAIN pre[p].users
    /\ LevelMarkers(pre[p].level_rewards, ret[p].call.uid, ret[p].call.level) = 1
    /\ \E l \in Levels : l # ret[p].call.level
          /\ LevelMarkers(pre[p].level_rewards, ret[p].call.uid, l) = 1
    /\ IsAlready(ret[p])
    /\ users[ret[p].call.uid].coins = 2 * LEVEL_COMPLETE_AMOUNT

\* C2: the stored coin balance of every account is >= 0 in every reachable
\* state, whatever balance-changing operations ran.
C2_BalanceNonNegative ==
  \A uid \in DOMAIN users : users[uid].coins >= 0

\* C9: each free-usage counter of every account is at most the free allowance
\* of 3, also under concurrent free consumes.
C9_FreeUsesCapped ==
  \A uid \in DOMAIN users :
    /\ users[uid].free_skips_used <= FREE_SKIPS_PER_ACCOUNT
    /\ users[uid].free_hints_used <= FREE_HINTS_PER_ACCOUNT
    /\ users[uid].free_restarts_used <= FREE_RESTARTS_PER_ACCOUNT

\* The free-usage counter of a consume function in an account row.
FreeUsed(u, op) ==
  IF op = "useSkip" THEN u.free_skips_used
  ELSE IF op = "useHint" THEN u.free_hints_used
  ELSE u.free_restarts_used

\* The result of a free call that found no free use left.
IsNoFreeLeft(r, op) ==
  IF op = "useSkip" THEN r = Returned([ok |-> FALSE, error |-> "NO_FREE_SKIPS"]) @@ [call |-> r.call]
  ELSE IF op = "useHint" THEN r.status = "error" /\ r.error = "No free hints left"
  ELSE r = Returned([ok |-> FALSE, error |-> "NO_FREE_RESTARTS"]) @@ [call |-> r.call]

ConsumeOps == {"useSkip", "useHint", "useRestarts"}

\* C10: a sequential consume(kind, free) of an account that has used fewer
\* than 3 free uses of the kind succeeds and raises that kind's counter by 1,
\* leaving the other two counters alone; with 3 used it fails with the
\* no-free-uses-left outcome and changes nothing.  From a fresh account the
\* calls of a kind so succeed exactly 3 times.
C10_FreeAllowance ==
  \A p \in Procs, op \in ConsumeOps :
    ( /\ DoneAlone(p, op)
      /\ ret[p].call.mode = "free"
      /\ ret[p].call.uid \in DOMAIN pre[p].users )
    => LET uid == ret[p].call.uid
           before == pre[p].users[uid]
       IN IF FreeUsed(before, op) < 3
            THEN /\ ret[p].status = "ok"
                 /\ ret[p].value.ok = TRUE
                 /\ uid \in DOMAIN users
                 /\ \A o \in ConsumeOps :
                      FreeUsed(users[uid], o) =
                        FreeUsed(before, o) + (IF o = op THEN 1 ELSE 0)
            ELSE IsNoFreeLeft(ret[p], op) /\ SameTables(pre[p])

\* C10 witness: the fourth free skip of an account fails after three that
\* succeeded.
C10_Witness ==
  \E p \in Procs :
    /\ DoneAlone(p, "useSkip")
    /\ ret[p].call.mode = "free"
    /\ ret[p].call.uid \in DOMAIN pre[p].users
    /\ pre[p].users[ret[p].call.uid].free_skips_used = 3
    /\ pre[p].users[ret[p].call.uid].monthly_skips_used = 3
    /\ IsNoFreeLeft(ret[p], "useSkip")

CostOf(op) ==
  IF op = "useSkip" THEN SKIP_COST_COINS
  ELSE IF op = "useHint" THEN HINT_COST_COINS
  ELSE RESTART_COST_COINS

\* Number of reward_claims rows of an account with an amount.
AmountRows(rc, uid, amount) == RowCount(rc, LAMBDA r : r.uid = uid /\ r.amount = amount)

AdTypeOf(op) ==
  IF op = "useSkip" THEN "skip_ad"
  ELSE IF op = "useHint" THEN "hint_ad"
  ELSE "restart_ad"

\* Number of reward_claims rows of an account with a type, a nonce and amount 0.
ZeroRows(rc, uid, type, nonce) ==
  RowCount(rc, LAMBDA r : r.uid = uid /\ r.type = type /\ r.nonce = nonce /\ r.amount = 0)

\* C13: a sequential consume(kind, ad, nonce) of an account, for kind skip,
\* hint or restart, never changes a coin balance; without a nonce it throws
\* and changes nothing; when the account has no row of the kind with the nonce
\* it succeeds and adds one row of the kind with the nonce and amount 0; when
\* it has one it changes nothing.
C13_AdConsume ==
  \A p \in Procs, op \in ConsumeOps :
    ( /\ DoneAlone(p, op)
      /\ ret[p].call.mode = "ad"
      /\ ret[p].call.uid \in DOMAIN pre[p].users )
    => LET uid == ret[p].call.uid
           nonce == ret[p].call.nonce
       IN /\ \A u \in DOMAIN pre[p].users :
               u \in DOMAIN users /\ users[u].coins = pre[p].users[u].coins
          /\ IF nonce = NULL
               THEN ret[p].status = "error" /\ SameTables(pre[p])
             ELSE IF adClaimExisting(pre[p].reward_claims, uid, AdTypeOf(op), nonce) = 0
               THEN /\ ret[p].status = "ok"
                    /\ ret[p].value # NoRow
                    /\ ZeroRows(reward_claims, uid, AdTypeOf(op), nonce) = 1
                    /\ BagCardinality(reward_claims) =
                         BagCardinality(pre[p].reward_claims) + 1
               ELSE SameTables(pre[p])

\* C14: a consume call made without a paying mode (mode free, or no mode at
\* all) never debits coins: when it has returned, every balance is what it was
\* when the call began, also when the free allowance was used up.
C14_NoModeSwitch ==
  \A p \in Procs :
    ( /\ pc[p] = "done"
      /\ pre[p] # NoRow
      /\ ret[p].call.op \in ConsumeOps \cup {"useSkip(uid)", "useHint(uid)"}
      /\ ret[p].call.mode \notin {"coins", "ad"} )
    => \A u \in DOMAIN pre[p].users :
         u \in DOMAIN users /\ users[u].coins = pre[p].users[u].coins

\* Number of coin-ad rows of an account claimed in a month.
CoinAdRows(rc, uid, month) ==
  RowCount(rc, LAMBDA r : r.uid = uid /\ r.type = "ad" /\ r.nonce[2] = month)

\* The account's ad views of the month were all applied claims of the month:
\* the earlier claimCoinAd calls each ran within one month and were applied.
ViewsAreClaims(s, uid, month) ==
  CoinAdRows(s.reward_claims, uid, month) = getMonthlyAds(s.user_ads, uid, month).ads_for_coins

AdClaimRows(rc, uid, month) ==
  RowCount(rc, LAMBDA r : r.uid = uid /\ IsAdType(r.type)
                           /\ r.created_at \div DaysPerMonth = month)

\* C16: the monthly ads-watched counter of an account equals the number of ad
\* claims applied for it in the current month, also when ad claims of the
\* account run concurrently: once every request has returned, none of them
\* with an error, an account whose monthly key is the current month has as
\* many watched ads as ad rows of the month.
C16_AdsWatchedCounter ==
  (Quiescent /\ NoneThrew)
    => \A uid \in DOMAIN users :
         users[uid].monthly_key = <<currentMonthKey>>
           => users[uid].monthly_ads_watched
                = AdClaimRows(reward_claims, uid, currentMonthKey)

\* C17: no two reward_claims rows have the same nonce, whichever accounts they
\* belong to: in every state a nonce is the nonce of at most one row.
C17_NonceGloballyUnique ==
  \A nonce \in Nonces :
    RowCount(reward_claims, LAMBDA r : r.nonce = nonce) <= 1

\* C18: a duplicate claim is a successful result that carries the current
\* account state: a POST /api/rewards/ad-50 request that runs sequentially for
\* an account that has a row with the (uid, nonce) of the request returns a
\* value, not an error, and the value holds the account row as it is in the
\* users table.
C18_DuplicateCarriesAccount ==
  \A p \in Procs :
    ( /\ DoneAlone(p, "ad50")
      /\ ret[p].call.uid \in DOMAIN pre[p].users
      /\ NonceRows(pre[p].reward_claims, ret[p].call.uid, ret[p].call.nonce) > 0 )
    => /\ ret[p].status = "ok"
       /\ "user" \in DOMAIN ret[p].value
       /\ ret[p].value.user = users[ret[p].call.uid]

\* Number of rows of a type of an account made at a clock reading.
TypeRowsAt(rc, uid, type, day) ==
  RowCount(rc, LAMBDA r : r.uid = uid /\ r.type = type /\ r.created_at = day)

\* C19: with cooldownSeconds = 30, a claim with a fresh nonce issued before the
\* cooldown of the most recent applied claim of the same (uid, type) is over
\* fails and changes neither the balance nor the ledger: a sequential
\* POST /api/rewards/ad-50 request with a nonce the account has no row for,
\* made at the clock reading of an applied ad_50 claim of the account, ends
\* with an error and leaves reward_claims and the coins as they were.
C19_Cooldown ==
  \A p \in Procs :
    ( /\ DoneAlone(p, "ad50")
      /\ pre[p].today = today
      /\ ret[p].call.uid \in DOMAIN pre[p].users
      /\ NonceRows(pre[p].reward_claims, ret[p].call.uid, ret[p].call.nonce) = 0
      /\ TypeRowsAt(pre[p].reward_claims, ret[p].call.uid, ret[p].call.type, today) > 0 )
    => /\ ret[p].status = "error"
       /\ reward_claims = pre[p].reward_claims
       /\ users[ret[p].call.uid].coins = pre[p].users[ret[p].call.uid].coins

\* C20: closeMonthAndResetCoins(m), run on a state where an account has
\* c # 0 coins and no payout row for m, completes successfully and leaves the
\* monthly_payouts row (uid, m) with coins_collected = c and status pending,
\* the account's coins at 0 and its monthly counters at 0.
C20_MonthClose ==
  \A p \in Procs :
    DoneAlone(p, "closeMonthAndResetCoins")
      => \A uid \in DOMAIN pre[p].users :
           ( /\ pre[p].users[uid].coins # 0
             /\ PayoutRows(pre[p].monthly_payouts, uid, ret[p].call.month) = 0 )
           => /\ ret[p].status = "ok"
              /\ PayoutRows(monthly_payouts, uid, ret[p].call.month) = 1
              /\ BagIn(PayoutRow(uid, ret[p].call.month, pre[p].users[uid].coins),
                       monthly_payouts)
              /\ users[uid].coins = 0
              /\ users[uid].monthly_coins_earned = 0
              /\ users[uid].monthly_ads_watched = 0
              /\ users[uid].monthly_skips_used = 0
              /\ users[uid].monthly_hints_used = 0
              /\ users[uid].monthly_restarts_used = 0

C22_RolledBackAsAWhole ==
  \A p \in Procs :
    ( /\ \/ DoneAlone(p, "closeMonthAndResetCoins")
         \/ DoneAlone(p, "claimMonthlyRewards")
      /\ ret[p].status = "error" )
    => SameTables(pre[p])

\* C22 witness: a closeMonthAndResetCoins that had inserted the payout row of
\* an account with coins, and a claimMonthlyRewards of such an account, failed.
C22_Witness ==
  \E p \in Procs :
    /\ DoneAlone(p, "closeMonthAndResetCoins") \/ DoneAlone(p, "claimMonthlyRewards")
    /\ ret[p].status = "error"
    /\ pre[p].users["u1"].coins # 0
    /\ PayoutRows(pre[p].monthly_payouts, "u1", ret[p].call.month) = 0
    /\ SameTables(pre[p])

\* A sequential ensureMonthlyKey call of an account that ran within one month.
EnsuredInMonth(p) ==
  /\ DoneAlone(p, "ensureMonthlyKey")
  /\ ret[p].call.uid \in DOMAIN pre[p].users
  /\ pre[p].today \div DaysPerMonth = currentMonthKey

\* C23: ensureMonthlyKey(uid) called again within the same calendar month,
\* after a first call in that month, changes nothing: the stored key and the
\* monthly counters incremented since keep their values.
C23_EnsureAgainIsNoOp ==
  \A p \in Procs :
    ( /\ EnsuredInMonth(p)
      /\ pre[p].users[ret[p].call.uid].monthly_key = <<currentMonthKey>> )
    => /\ SameTables(pre[p])
       /\ ret[p] = Returned([mk |-> currentMonthKey])
                     @@ [call |-> ret[p].call]

\* C23 witness: a second call in a month in which the account has earned coins
\* and used a skip since the first.
C23_Witness ==
  \E p \in Procs :
    /\ EnsuredInMonth(p)
    /\ pre[p].users[ret[p].call.uid].monthly_key = <<currentMonthKey>>
    /\ pre[p].users[ret[p].call.uid].monthly_coins_earned > 0
    /\ pre[p].users[ret[p].call.uid].monthly_skips_used > 0
    /\ users[ret[p].call.uid].monthly_coins_earned > 0
    /\ users[ret[p].call.uid].monthly_skips_used > 0

\* C24: when the stored monthly key differs from the current month,
\* ensureMonthlyKey sets every monthly counter to zero and stamps the current
\* month key, and leaves the coins, the free-use counters, the lifetime totals
\* and every other table as they were.
C24_MonthlyReset ==
  \A p \in Procs :
    ( /\ EnsuredInMonth(p)
      /\ pre[p].users[ret[p].call.uid].monthly_key # <<currentMonthKey>> )
    => LET uid == ret[p].call.uid
           u == users[uid]
           u0 == pre[p].users[uid]
       IN /\ u.monthly_key = <<currentMonthKey>>
          /\ u.monthly_coins_earned = 0
          /\ u.monthly_login_days = 0
          /\ u.monthly_levels_completed = 0
          /\ u.monthly_skips_used = 0
          /\ u.monthly_hints_used = 0
          /\ u.monthly_restarts_used = 0
          /\ u.monthly_ads_watched = 0
          /\ u.monthly_valid_invites = 0
          /\ u.monthly_max_win_streak = 0
          /\ u.coins = u0.coins
          /\ u.free_restarts_used = u0.free_restarts_used
          /\ u.free_skips_used = u0.free_skips_used
          /\ u.free_hints_used = u0.free_hints_used
          /\ u.lifetime_coins_earned = u0.lifetime_coins_earned
          /\ u.lifetime_coins_spent = u0.lifetime_coins_spent
          /\ u.lifetime_levels_completed = u0.lifetime_levels_completed
          /\ u.lifetime_invites_valid = u0.lifetime_invites_valid
          /\ u.username = u0.username
          /\ \A other \in DOMAIN users \ {uid} : users[other] = pre[p].users[other]
          /\ reward_claims = pre[p].reward_claims
          /\ level_rewards = pre[p].level_rewards

\* C24 witness: the reset of an account with coins, a used free skip and
\* monthly counters above zero, in the month after the one of its key.
C24_Witness ==
  \E p \in Procs :
    /\ EnsuredInMonth(p)
    /\ pre[p].users[ret[p].call.uid].monthly_key = <<currentMonthKey - 1>>
    /\ pre[p].users[ret[p].call.uid].monthly_coins_earned > 0
    /\ pre[p].users[ret[p].call.uid].monthly_skips_used > 0
    /\ users[ret[p].call.uid].monthly_key = <<currentMonthKey>>
    /\ users[ret[p].call.uid].monthly_skips_used = 0
    /\ users[ret[p].call.uid].coins > 0
    /\ users[ret[p].call.uid].free_skips_used > 0

\* C25: upsertUser(uid, username) fails with a conflict error when the
\* username belongs to an account with another uid, changing nothing: a
\* sequential upsertUser call that returned an account did not give it the
\* username another account had.
C25_UsernameConflict ==
  \A p \in Procs :
    (DoneAlone(p, "upsertUser") /\ ret[p].status = "ok")
      => \A other \in DOMAIN pre[p].users \ {ret[p].call.uid} :
           pre[p].users[other].username # ret[p].value.user.username

\* C26: in every state no two accounts have the same username.
C26_UsernameUnique ==
  \A u1 \in DOMAIN users, u2 \in DOMAIN users :
    u1 # u2 => users[u1].username # users[u2].username

\* The reward_claims and level_rewards rows of an account.
RowsOf(table, uid) ==
  [r \in {x \in BagToSet(table) : x.uid = uid} |-> CopiesIn(r, table)]

\* C27: a reward operation on account A leaves the coins, counters, ledger
\* rows and level markers of every other account B unchanged, and the result
\* of an operation on B does not depend on the operations performed on A: a
\* sequential claimReward of an account that returns a result is applied
\* whenever the account itself has no row with the nonce.
C27_AccountsIndependent ==
  \A p \in Procs :
    ( /\ DoneAlone(p, "claimReward")
      /\ ret[p].call.uid \in DOMAIN pre[p].users )
    => LET A == ret[p].call.uid
       IN /\ \A B \in DOMAIN pre[p].users \ {A} :
               /\ users[B] = pre[p].users[B]
               /\ RowsOf(reward_claims, B) = RowsOf(pre[p].reward_claims, B)
               /\ RowsOf(level_rewards, B) = RowsOf(pre[p].level_rewards, B)
          /\ ( /\ ret[p].status = "ok"
               /\ NonceRows(pre[p].reward_claims, A, ret[p].call.nonce) = 0 )
             => /\ "user" \in DOMAIN ret[p].value
                /\ NonceRows(reward_claims, A, ret[p].call.nonce) = 1
                /\ users[A].coins = pre[p].users[A].coins + ret[p].call.amount

\* C28: every change of a balance by a reward or a paid consumable comes with
\* one ledger entry of the same signed amount: once every request has
\* returned, none with an error, the coins of each account are the sum of the
\* amounts of its reward_claims rows.
C28_BalanceIsLedgerSum ==
  (Quiescent /\ NoneThrew)
    => \A uid \in DOMAIN users :
         users[uid].coins = LedgerSum(reward_claims, uid)

\* The sum of the points of a breakdown.
BreakdownSum(b) ==
  b.daily + b.levels + b.invites + b.skill + b.engagement + b.streak

\* Request p has returned from a rate calculation that ran alone.
RateReturned(p) ==
  /\ DoneAlone(p, "recalcAndStoreMonthlyRate")
  /\ ret[p].status = "ok"

\* The monthly counters of row u.
countersOf(u) == [c \in MonthlyCounters |-> u[c]]

\* C29: for non-negative monthly counters the rate calcMonthlyRate returns lies
\* between 0 and 100 and is the smaller of 100 and 50 plus the sum of the
\* points of the breakdown it returns with it.
C29_RateIsCappedSum ==
  \A p \in Procs :
    RateReturned(p) =>
      LET u == pre[p].users[ret[p].call.uid]
          r == ret[p].value
      IN (\A c \in MonthlyCounters : u[c] >= 0)
           => /\ r.rate \in 0..100
              /\ r.rate = Min(100, BASE_RATE + BreakdownSum(r.breakdown))
              /\ r.user.monthly_final_rate = r.rate

\* A calculation with every counter in its top tier has returned, with points
\* in every band.
C29_Witness ==
  \E p \in Procs :
    /\ RateReturned(p)
    /\ \A c \in MonthlyCounters :
         \A x \in CounterValues[c] : pre[p].users[ret[p].call.uid][c] >= x
    /\ ret[p].value.rate > BASE_RATE + 40
    /\ ret[p].value.breakdown.streak > 0

\* C30: the result of calcMonthlyRate is determined by the monthly counters
\* alone, and raising any one counter never lowers the rate.
C30_RatePureAndMonotone ==
  \A p \in Procs :
    RateReturned(p) =>
      LET u == pre[p].users[ret[p].call.uid]
          r == ret[p].value
      IN /\ \A coins \in Balances :
              calcMonthlyRate(WithCounters(NewUser(NULL), countersOf(u), coins))
                = [rate |-> r.rate, breakdown |-> r.breakdown]
         /\ \A c \in MonthlyCounters :
              \A x \in CounterValues[c] :
                x >= u[c] => calcMonthlyRate([u EXCEPT ![c] = x]).rate >= r.rate

\* A calculation has returned for an account with coins whose rate a higher
\* ads counter raises.
C30_Witness ==
  \E p \in Procs :
    /\ RateReturned(p)
    /\ LET u == pre[p].users[ret[p].call.uid]
       IN /\ u.coins > 0
          /\ \E x \in AdsWatched :
               /\ x > u.monthly_ads_watched
               /\ calcMonthlyRate([u EXCEPT !.monthly_ads_watched = x]).rate
                    > ret[p].value.rate

\* C31: once adminDeleteUser(uid) has completed for an existing account, the
\* account table and the dependent tables (reward claims, level rewards,
\* monthly payouts, ad counters) hold no row of that uid.
C31_DeleteLeavesNoRow ==
  \A p \in Procs :
    ( /\ DoneAlone(p, "adminDeleteUser")
      /\ ret[p].status = "ok"
      /\ ret[p].call.uid \in DOMAIN pre[p].users )
    => LET uid == ret[p].call.uid
       IN /\ uid \notin DOMAIN users
          /\ RowCount(reward_claims, LAMBDA r : r.uid = uid) = 0
          /\ RowCount(level_rewards, LAMBDA r : r.uid = uid) = 0
          /\ RowCount(monthly_payouts, LAMBDA r : r.uid = uid) = 0
          /\ \A k \in DOMAIN user_ads : k[1] # uid

\* The verification of request p has failed.
VerifyFailed(p) ==
  /\ pc[p] = "done"
  /\ ret[p].call.op = "requirePiUser"
  /\ ret[p].status = "error"

\* C32: every identity verification eventually completes, with the verified
\* uid and username or with an error, however long the platform stays silent;
\* and a request whose verification is pending or has failed has changed no
\* table.
C32_VerifyCompletes ==
  /\ [](\A p \in Procs :
          ((InVerify(p) \/ VerifyFailed(p)) /\ pre[p] # NoRow)
            => SameTables(pre[p]))
  /\ \A p \in Procs : InVerify(p) ~> ~InVerify(p)

\* A verification was aborted by its timer, beside an account that another
\* request had created.
C32_Witness ==
  \E p \in Procs :
    /\ VerifyFailed(p)
    /\ pre[p] # NoRow
    /\ ret[p].error = "This operation was aborted"
    /\ users # EmptyUsers

\* The monthly counters that reward and consume operations increment.
IncrementedCounters ==
  {"monthly_coins_earned", "monthly_login_days", "monthly_levels_completed",
   "monthly_skips_used", "monthly_hints_used", "monthly_restarts_used",
   "monthly_ads_watched"}

\* C33: the rollover reset is applied at most once per account and month, also
\* when ensureMonthlyKey runs beside itself or beside reward and consume
\* operations: once the key of the current month is stamped on an account, no
\* step lowers one of its monthly counters.
C33_NoLateReset ==
  [][\A uid \in DOMAIN users \cap DOMAIN users' :
       users[uid].monthly_key = <<currentMonthKey>>
         => \A c \in IncrementedCounters : users'[uid][c] >= users[uid][c]]_vars

\* The stored rate and breakdown of row u are what calcMonthlyRate gives for it.
RateFresh(u) ==
  /\ u.monthly_final_rate = calcMonthlyRate(u).rate
  /\ u.monthly_rate_breakdown = calcMonthlyRate(u).breakdown

\* The operations that touch the monthly counters.
CounterOps ==
  {"claimDailyLogin", "claimLevelComplete", "claimReward", "useSkip", "useHint",
   "useRestarts", "ensureMonthlyKey"}

\* C34: after every completed counter-affecting operation (daily login, level
\* complete, ad claim, consume, rollover) the stored monthly_final_rate and
\* monthly_rate_breakdown are calcMonthlyRate of the account's monthly
\* counters: an operation that runs alone on an account whose stored rate was
\* fresh and returns without an error leaves it fresh.
C34_StoredRateFresh ==
  \A p \in Procs :
    ( /\ pc[p] = "done"
      /\ pre[p] # NoRow
      /\ ret[p].call.op \in CounterOps
      /\ ret[p].status = "ok"
      /\ ret[p].call.uid \in DOMAIN pre[p].users
      /\ RateFresh(pre[p].users[ret[p].call.uid]) )
    => RateFresh(users[ret[p].call.uid])

\* The same for the rate alone, whatever the stored breakdown.
C34_StoredRateNumber ==
  \A p \in Procs :
    ( /\ pc[p] = "done"
      /\ pre[p] # NoRow
      /\ ret[p].call.op \in CounterOps
      /\ ret[p].status = "ok"
      /\ ret[p].call.uid \in DOMAIN pre[p].users
      /\ LET u == pre[p].users[ret[p].call.uid]
         IN u.monthly_final_rate = calcMonthlyRate(u).rate )
    => LET u == users[ret[p].call.uid]
       IN u.monthly_final_rate = calcMonthlyRate(u).rate

\* A step increments a monthly counter of account uid.
IncrementsCounter(uid) ==
  /\ uid \in DOMAIN users \cap DOMAIN users'
  /\ \E c \in IncrementedCounters : users'[uid][c] > users[uid][c]

\* C35: in every request ensureMonthlyKey has completed before the reward or
\* consume operation runs, so a step increments a monthly counter of an
\* account only while the account's monthly_key is the current month.
C35_IncrementsUnderCurrentKey ==
  [][\A uid \in Uids :
       IncrementsCounter(uid) => users[uid].monthly_key = <<currentMonthKey>>]_vars

\* C36: in the free-then-paid routes each successful request consumes exactly
\* one unit: a request that runs alone for an account with fewer than 3 free
\* uses of the item succeeds and adds one to the free uses of that item.
C36_FreeThenPaid ==
  \A p \in Procs :
    ( /\ DoneAlone(p, "apiFreeThenPaid")
      /\ ret[p].call.uid \in DOMAIN pre[p].users
      /\ pre[p].users[ret[p].call.uid][FreeUsedColumn(ret[p].call.type)] < 3 )
    => /\ ret[p].status = "ok"
       /\ users[ret[p].call.uid][FreeUsedColumn(ret[p].call.type)]
            = pre[p].users[ret[p].call.uid][FreeUsedColumn(ret[p].call.type)] + 1

\* C37: a month close never destroys unrecorded coins: a step of
\* closeMonthAndResetCoins or claimMonthlyRewards that sets a nonzero balance
\* to 0 adds a payout row of the account with that amount as coins_collected,
\* also when the month already has a payout row and when reward claims run
\* beside it.
C37_CloseRecordsCoins ==
  [][\A uid \in DOMAIN users \cap DOMAIN users' :
       (users[uid].coins # 0 /\ users'[uid].coins = 0)
         => \E month \in PayoutMonths :
              CopiesIn(PayoutRow(uid, month, users[uid].coins), monthly_payouts')
                = CopiesIn(PayoutRow(uid, month, users[uid].coins), monthly_payouts) + 1]_vars

\* The monthly usage counter of the kind a consume call is for.
MonthlyUsedColumn(op) ==
  IF op = "useSkip" THEN "monthly_skips_used"
  ELSE IF op = "useHint" THEN "monthly_hints_used" ELSE "monthly_restarts_used"

\* The call returned { ok: true, user }: a consume that was applied.
IsConsumed(r) ==
  /\ r.status = "ok"
  /\ DOMAIN r.value = {"ok", "user"}
  /\ r.value.ok

\* C38: every successful consume of a kind, in any mode, adds exactly 1 to the
\* monthly usage counter of the kind, and a failed or duplicate consume adds
\* nothing: for a consume call that runs alone.
C38_ConsumeCountsMonthly ==
  \A p \in Procs :
    ( /\ pc[p] = "done"
      /\ pre[p] # NoRow
      /\ ret[p].call.op \in {"useSkip", "useHint", "useRestarts"}
      /\ ret[p].call.uid \in DOMAIN pre[p].users )
    => LET uid == ret[p].call.uid
           c == MonthlyUsedColumn(ret[p].call.op)
       IN users[uid][c]
            = pre[p].users[uid][c] + (IF IsConsumed(ret[p]) THEN 1 ELSE 0)

\* The columns of an account that count coins and uses.
CounterColumns ==
  {"coins", "free_restarts_used", "free_skips_used", "free_hints_used",
   "monthly_coins_earned", "monthly_login_days", "monthly_levels_completed",
   "monthly_skips_used", "monthly_hints_used", "monthly_restarts_used",
   "monthly_ads_watched", "monthly_valid_invites", "monthly_max_win_streak",
   "lifetime_coins_earned", "lifetime_coins_spent", "lifetime_levels_completed",
   "lifetime_invites_valid"}

\* C39: upsertUser on a uid that has an account changes only its username
\* (coins, free-usage counters, monthly counters and lifetime totals stay as
\* they were); on a new uid it creates the account with coins 0 and every
\* counter 0; the other accounts are left alone.
C39_UpsertFrame ==
  \A p \in Procs :
    ( DoneAlone(p, "upsertUser") /\ ret[p].status = "ok" )
    => LET uid == ret[p].call.uid
       IN /\ uid \in DOMAIN users
          /\ ret[p].value.user = users[uid]
          /\ IF uid \in DOMAIN pre[p].users
               THEN users[uid]
                      = [pre[p].users[uid] EXCEPT !.username = users[uid].username]
               ELSE \A c \in CounterColumns : users[uid][c] = 0
          /\ \A other \in DOMAIN pre[p].users \ {uid} :
               /\ other \in DOMAIN users
               /\ users[other] = pre[p].users[other]

\* upsertUser has given a new username to an account that has coins.
C39_Witness ==
  \E p \in Procs :
    /\ DoneAlone(p, "upsertUser")
    /\ ret[p].status = "ok"
    /\ ret[p].call.uid \in DOMAIN pre[p].users
    /\ pre[p].users[ret[p].call.uid].coins > 0
    /\ pre[p].users[ret[p].call.uid].username # users[ret[p].call.uid].username

\* C40: in the /ads/claim handler the pointsToday of a user never exceeds the
\* daily cap of 30, under any sequence or interleaving of claim requests for
\* the username.
C40_DailyCap ==
  \A username \in DOMAIN users : users[username].pointsToday <= DAILY_CAP

====
